---------------------------- MODULE Spec2Model ----------------------------
(***************************************************************************)
(* Narration synthesis pipeline of aiuto_trend_producer:                   *)
(*   src/modules/tts_narrator.py        (class TTSNarrator)                *)
(*   src/modules/chatterbox_narrator.py (class ChatterboxNarrator)         *)
(*                                                                         *)
(* A text is a sequence of characters; a character is a one-character      *)
(* string.  Characters outside ASCII are written as named atoms            *)
(* ("&eacute;" is U+00E9, "&deg;" is U+00B0, "&grave;" is the backtick,      *)
(* "&emoji;" is any character beyond the Latin blocks).                    *)
(***************************************************************************)
EXTENDS Integers, Sequences, FiniteSets, TLC

VARIABLES
    \* the narrator instance (self) and its environment
    narrador,       \* class of the instance: "TTSNarrator" or "ChatterboxNarrator"
    n2w,            \* TRUE iff the num2words package can be imported
    modo_clonagem,  \* self.modo_clonagem
    voice_sample,   \* self.voice_sample
    speaker,        \* self.speaker ("None" when unset)
    modelo_xtts,    \* "xtts" in self.model_name.lower()
    tts,            \* self._tts / self._model: the engine handle
    vida,           \* the instance's life: "novo", "condicionando", "pronto", "destruido"
    ref_tmp,        \* self._voice_sample_tmp ("None" when unset)
    ref_arquivo,    \* the conditioned reference's temp file: "ausente", "existe", "removido"
    ref_log,        \* the step whose failure _preparar_referencia_voz logged ("nenhum")
    torchaudio,     \* TRUE iff the torchaudio package can be imported
    \* the caller
    plano,          \* the scenes the caller asks for, one sintetizar_cena call each
    chamadas,       \* calls of sintetizar_cena started so far
    \* the running sintetizar_cena call
    pc,             \* position in sintetizar_cena
    cena,           \* number of the scene whose text was passed
    output_path,    \* the output_path argument
    texto,          \* the prepared text
    sentencas,      \* the chunks
    i_sent,         \* index of the chunk in the loop (i, from 1)
    tmp_path,       \* temporary file of the chunk (0: none)
    wav,            \* what the engine wrote to tmp_path
    segmentos,      \* the (sent, seg) pairs
    pendente,       \* exception in flight inside the loop body
    audio_final,    \* the assembled track
    resultado,      \* how the call ended
    \* the file system
    disco,          \* output files: path -> content
    temporarios,    \* names of the chunk-level temporary files that exist
    criados,        \* temporary files created so far (names are 1, 2, ...)
    \* observation of the collaborators, per call
    motor_log,      \* the engine calls made, in order
    erros,          \* the chunks whose synthesis or read-back raised an Exception
    pos_log,        \* the tracks _pos_processar was applied to, in order
    \* a method called in isolation
    chamada,        \* its name ("nenhuma" if none)
    fase,           \* "chamada", "retornou", "retornou2"
    arg,            \* its text argument
    argMax,         \* its max_chars argument
    ret,            \* its result
    ret2            \* the result of applying it again to its own result

-----------------------------------------------------------------------------
(* Character classes, as Python's re module sees them (str patterns).      *)

Digitos == {"0", "1", "2", "3", "4", "5", "6", "7", "8", "9"}

MinusculasAscii ==
    {"a", "b", "c", "d", "e", "f", "g", "h", "i", "j", "k", "l", "m", "n",
     "o", "p", "q", "r", "s", "t", "u", "v", "w", "x", "y", "z"}

MaiusculasAscii ==
    {"A", "B", "C", "D", "E", "F", "G", "H", "I", "J", "K", "L", "M", "N",
     "O", "P", "Q", "R", "S", "T", "U", "V", "W", "X", "Y", "Z"}

\* Letters of U+00C0..U+024F that the model knows.
MinusculasLatinas == {"&eacute;", "&ecirc;", "&ocirc;", "&oacute;", "&ccedil;"}

MaiusculasLatinas == {"&Eacute;", "&Oacute;"}

Letras ==
    MinusculasAscii \cup MaiusculasAscii \cup MinusculasLatinas \cup MaiusculasLatinas

\* \s
Espacos == {" ", "\t", "\n"}

\* Characters outside [\x00-\x7FÀ-ɏḀ-ỿ]: U+00B0 and an emoji.
NaoLatinos == {"&deg;", "&emoji;"}

\* \w
IsWord(c) == c \in Letras \cup Digitos \cup {"_"}

\* str.lower() of one character (re.IGNORECASE compares case-folded characters).
Lower(c) ==
    CASE c = "A" -> "a" [] c = "B" -> "b" [] c = "C" -> "c" [] c = "D" -> "d"
      [] c = "E" -> "e" [] c = "F" -> "f" [] c = "G" -> "g" [] c = "H" -> "h"
      [] c = "I" -> "i" [] c = "J" -> "j" [] c = "K" -> "k" [] c = "L" -> "l"
      [] c = "M" -> "m" [] c = "N" -> "n" [] c = "O" -> "o" [] c = "P" -> "p"
      [] c = "Q" -> "q" [] c = "R" -> "r" [] c = "S" -> "s" [] c = "T" -> "t"
      [] c = "U" -> "u" [] c = "V" -> "v" [] c = "W" -> "w" [] c = "X" -> "x"
      [] c = "Y" -> "y" [] c = "Z" -> "z"
      [] c = "&Eacute;" -> "&eacute;" [] c = "&Oacute;" -> "&oacute;"
      [] OTHER -> c

\* The character at position i, or "" (in no class) outside the text.
At(s, i) == IF i >= 1 /\ i <= Len(s) THEN s[i] ELSE ""

\* Length of the longest run of characters of class C starting at i (greedy X+ / X*).
RunLen(s, i, C) ==
    IF i < 1 \/ i > Len(s) THEN 0
    ELSE (CHOOSE j \in i..(Len(s) + 1) :
              /\ j = Len(s) + 1 \/ s[j] \notin C
              /\ \A k \in i..(j - 1) : s[k] \in C) - i

\* Length of the longest run of characters outside class C starting at i ([^...]*).
RunLenNot(s, i, C) ==
    IF i < 1 \/ i > Len(s) THEN 0
    ELSE (CHOOSE j \in i..(Len(s) + 1) :
              /\ j = Len(s) + 1 \/ s[j] \in C
              /\ \A k \in i..(j - 1) : s[k] \notin C) - i

\* Length of the longest run of \w characters starting at i.
RunLenWord(s, i) ==
    IF i < 1 \/ i > Len(s) THEN 0
    ELSE (CHOOSE j \in i..(Len(s) + 1) :
              /\ j = Len(s) + 1 \/ ~IsWord(s[j])
              /\ \A k \in i..(j - 1) : IsWord(s[k])) - i

\* The literal lit occurs at position i, exactly.
MatchLit(s, i, lit) ==
    /\ i >= 1
    /\ i + Len(lit) - 1 <= Len(s)
    /\ \A j \in 1..Len(lit) : s[i + j - 1] = lit[j]

\* The literal lit occurs at position i, ignoring case (flags=re.IGNORECASE).
MatchLitCI(s, i, lit) ==
    /\ i >= 1
    /\ i + Len(lit) - 1 <= Len(s)
    /\ \A j \in 1..Len(lit) : Lower(s[i + j - 1]) = Lower(lit[j])

\* str.strip()
Strip(s) ==
    LET a == RunLen(s, 1, Espacos)
        ini == a + 1
        fins == {j \in a..Len(s) : \A k \in (j + 1)..Len(s) : s[k] \in Espacos}
        fim == CHOOSE j \in fins : \A k \in fins : j <= k
    IN  IF a = Len(s) THEN <<>> ELSE SubSeq(s, ini, fim)

\* str.rstrip()
RStrip(s) ==
    LET fins == {j \in 0..Len(s) : \A k \in (j + 1)..Len(s) : s[k] \in Espacos}
        fim == CHOOSE j \in fins : \A k \in fins : j <= k
    IN  SubSeq(s, 1, fim)

-----------------------------------------------------------------------------
(* _limpar_texto                                                            *)

MNaoLatino(s, i) == IF s[i] \in NaoLatinos THEN 1 ELSE 0

\* r'\*+|#+|_{2,}|`+|\[|\]'  (TTSNarrator)
MMarkdownTts(s, i) ==
    CASE s[i] \in {"*", "#", "&grave;"} -> RunLen(s, i, {s[i]})
      [] s[i] = "_" -> (LET n == RunLen(s, i, {"_"}) IN IF n >= 2 THEN n ELSE 0)
      [] s[i] \in {"[", "]"} -> 1
      [] OTHER -> 0

\* r'\*+|#+|_{2,}|`+'  (ChatterboxNarrator)
MMarkdownCb(s, i) ==
    CASE s[i] \in {"*", "#", "&grave;"} -> RunLen(s, i, {s[i]})
      [] s[i] = "_" -> (LET n == RunLen(s, i, {"_"}) IN IF n >= 2 THEN n ELSE 0)
      [] OTHER -> 0

\* r'\[.*?\]' : '.' does not match a newline
MColchetes(s, i) ==
    IF s[i] # "["
    THEN 0
    ELSE LET n == RunLenNot(s, i + 1, {"]", "\n"})
         IN  IF At(s, i + 1 + n) = "]" THEN n + 2 ELSE 0

\* [A-ZÁÀÃÂÉÊÍÓÕÔÚÇ]
MaiusculasParenteses == MaiusculasAscii \cup {"&Eacute;", "&Oacute;"}

\* [A-ZÁÀÃÂÉÊÍ]
MaiusculasCena == MaiusculasAscii \cup {"&Eacute;"}

MaxAnotacao == 40

\* r'\([A-ZÁÀÃÂÉÊÍÓÕÔÚÇ][^)]{0,40}\)'
MParenteses(s, i) ==
    IF s[i] = "(" /\ At(s, i + 1) \in MaiusculasParenteses
    THEN LET n == RunLenNot(s, i + 2, {")"})
         IN  IF n <= MaxAnotacao /\ At(s, i + 2 + n) = ")" THEN n + 3 ELSE 0
    ELSE 0

PalavrasCena ==
    { <<"P", "o", "n", "t", "o">>,
      <<"P", "a", "u", "s", "a">>,
      <<"S", "i", "l", "&ecirc;", "n", "c", "i", "o">>,
      <<"F", "i", "m">>,
      <<"P", "r", "o", "n", "t", "o">> }

\* r'(?<=[.!?])\s+(?:Ponto|Pausa|Silêncio|Fim|Pronto)\.(?=\s+[A-ZÁÀÃÂÉÊÍ])'
MPalavraCena(s, i) ==
    IF s[i] \in Espacos /\ At(s, i - 1) \in {".", "!", "?"}
    THEN LET w == RunLen(s, i, Espacos)
             ok(p) == /\ MatchLit(s, i + w, p)
                      /\ At(s, i + w + Len(p)) = "."
                      /\ LET k == i + w + Len(p) + 1
                             e == RunLen(s, k, Espacos)
                         IN  e >= 1 /\ At(s, k + e) \in MaiusculasCena
         IN  IF \E p \in PalavrasCena : ok(p)
             THEN w + Len(CHOOSE p \in PalavrasCena : ok(p)) + 1
             ELSE 0
    ELSE 0

MEspacos(s, i) == RunLen(s, i, Espacos)

-----------------------------------------------------------------------------
(* _expandir_abreviacoes                                                    *)

\* The literal rules of the table, in table order: \b<lit> followed by (?=\s),
\* by \b or by nothing, and the replacement.
AbreviacoesTts ==
    << [lit |-> <<"D", "r", ".">>, depois |-> "espaco",
        repl |-> <<"D", "o", "u", "t", "o", "r", " ">>],
       [lit |-> <<"D", "r", "a", ".">>, depois |-> "espaco",
        repl |-> <<"D", "o", "u", "t", "o", "r", "a", " ">>],
       [lit |-> <<"P", "r", "o", "f", ".">>, depois |-> "espaco",
        repl |-> <<"P", "r", "o", "f", "e", "s", "s", "o", "r", " ">>],
       [lit |-> <<"P", "r", "o", "f", "a", ".">>, depois |-> "espaco",
        repl |-> <<"P", "r", "o", "f", "e", "s", "s", "o", "r", "a", " ">>],
       [lit |-> <<"e", "t", "c", ".">>, depois |-> "nada",
        repl |-> <<"e", "t", "c", "e", "t", "e", "r", "a">>],
       [lit |-> <<"v", "s", ".">>, depois |-> "nada",
        repl |-> <<"v", "e", "r", "s", "u", "s">>],
       [lit |-> <<"e", "x", ".">>, depois |-> "espaco",
        repl |-> <<"p", "o", "r", " ", "e", "x", "e", "m", "p", "l", "o", " ">>],
       [lit |-> <<"p", "q">>, depois |-> "borda",
        repl |-> <<"p", "o", "r", "q", "u", "e">>],
       [lit |-> <<"t", "b">>, depois |-> "borda",
        repl |-> <<"t", "a", "m", "b", "&eacute;", "m">>] >>

AbreviacoesCb ==
    << [lit |-> <<"D", "r", ".">>, depois |-> "espaco",
        repl |-> <<"D", "o", "u", "t", "o", "r", " ">>],
       [lit |-> <<"D", "r", "a", ".">>, depois |-> "espaco",
        repl |-> <<"D", "o", "u", "t", "o", "r", "a", " ">>],
       [lit |-> <<"P", "r", "o", "f", ".">>, depois |-> "espaco",
        repl |-> <<"P", "r", "o", "f", "e", "s", "s", "o", "r", " ">>],
       [lit |-> <<"e", "t", "c", ".">>, depois |-> "nada",
        repl |-> <<"e", "t", "c", "e", "t", "e", "r", "a">>],
       [lit |-> <<"v", "s", ".">>, depois |-> "nada",
        repl |-> <<"v", "e", "r", "s", "u", "s">>] >>

\* The unit rules, in table order: (\d+)\s*<unidade>, followed by \b or not.
UnidadesTts ==
    << [unidade |-> <<"k", "m">>, borda |-> TRUE,
        repl |-> <<" ", "q", "u", "i", "l", "&ocirc;", "m", "e", "t", "r", "o", "s">>],
       [unidade |-> <<"k", "g">>, borda |-> TRUE,
        repl |-> <<" ", "q", "u", "i", "l", "o", "g", "r", "a", "m", "a", "s">>],
       [unidade |-> <<"m">>, borda |-> TRUE,
        repl |-> <<" ", "m", "e", "t", "r", "o", "s">>],
       [unidade |-> <<"%">>, borda |-> FALSE,
        repl |-> <<" ", "p", "o", "r", " ", "c", "e", "n", "t", "o">>],
       [unidade |-> <<"&deg;", "C">>, borda |-> FALSE,
        repl |-> <<" ", "g", "r", "a", "u", "s", " ", "C", "e", "l", "s", "i", "u", "s">>] >>

UnidadesCb ==
    << [unidade |-> <<"k", "m">>, borda |-> TRUE,
        repl |-> <<" ", "q", "u", "i", "l", "&ocirc;", "m", "e", "t", "r", "o", "s">>],
       [unidade |-> <<"k", "g">>, borda |-> TRUE,
        repl |-> <<" ", "q", "u", "i", "l", "o", "g", "r", "a", "m", "a", "s">>],
       [unidade |-> <<"%">>, borda |-> FALSE,
        repl |-> <<" ", "p", "o", "r", " ", "c", "e", "n", "t", "o">>],
       [unidade |-> <<"&deg;", "C">>, borda |-> FALSE,
        repl |-> <<" ", "g", "r", "a", "u", "s", " ", "C", "e", "l", "s", "i", "u", "s">>] >>

\* r'\b<lit>' with its look-ahead, flags=re.IGNORECASE
MAbreviacao(s, i, regra) ==
    LET fim == i + Len(regra.lit)
    IN  IF /\ ~IsWord(At(s, i - 1))
           /\ MatchLitCI(s, i, regra.lit)
           /\ CASE regra.depois = "espaco" -> At(s, fim) \in Espacos
                [] regra.depois = "borda" -> ~IsWord(At(s, fim))
                [] OTHER -> TRUE
        THEN Len(regra.lit)
        ELSE 0

SecLit == <<"s", "&eacute;", "c", ".">>

\* r'\bséc\.\s*(\w+)', flags=re.IGNORECASE
MSeculo(s, i) ==
    IF ~IsWord(At(s, i - 1)) /\ MatchLitCI(s, i, SecLit)
    THEN LET w == RunLen(s, i + Len(SecLit), Espacos)
             n == RunLenWord(s, i + Len(SecLit) + w)
         IN  IF n >= 1 THEN Len(SecLit) + w + n ELSE 0
    ELSE 0

\* r'século \1'
RSeculo(s, i) ==
    LET w == RunLen(s, i + Len(SecLit), Espacos)
        n == RunLenWord(s, i + Len(SecLit) + w)
    IN  <<"s", "&eacute;", "c", "u", "l", "o", " ">>
            \o SubSeq(s, i + Len(SecLit) + w, i + Len(SecLit) + w + n - 1)

\* r'(\d+)\s*<unidade>' with its optional \b, flags=re.IGNORECASE
MUnidade(s, i, regra) ==
    IF s[i] \in Digitos
    THEN LET d == RunLen(s, i, Digitos)
             w == RunLen(s, i + d, Espacos)
             j == i + d + w
         IN  IF /\ MatchLitCI(s, j, regra.unidade)
                /\ (regra.borda => ~IsWord(At(s, j + Len(regra.unidade))))
             THEN d + w + Len(regra.unidade)
             ELSE 0
    ELSE 0

\* r'\1 <palavra>'
RUnidade(s, i, regra) == SubSeq(s, i, i + RunLen(s, i, Digitos) - 1) \o regra.repl

-----------------------------------------------------------------------------
(* _numeros_por_extenso                                                     *)

N2wUnidades ==
    << <<"u", "m">>,
       <<"d", "o", "i", "s">>,
       <<"t", "r", "&ecirc;", "s">>,
       <<"q", "u", "a", "t", "r", "o">>,
       <<"c", "i", "n", "c", "o">>,
       <<"s", "e", "i", "s">>,
       <<"s", "e", "t", "e">>,
       <<"o", "i", "t", "o">>,
       <<"n", "o", "v", "e">>,
       <<"d", "e", "z">>,
       <<"o", "n", "z", "e">>,
       <<"d", "o", "z", "e">>,
       <<"t", "r", "e", "z", "e">>,
       <<"c", "a", "t", "o", "r", "z", "e">>,
       <<"q", "u", "i", "n", "z", "e">>,
       <<"d", "e", "z", "e", "s", "s", "e", "i", "s">>,
       <<"d", "e", "z", "e", "s", "s", "e", "t", "e">>,
       <<"d", "e", "z", "o", "i", "t", "o">>,
       <<"d", "e", "z", "e", "n", "o", "v", "e">> >>

N2wDezenas ==
    << <<>>,
       <<"v", "i", "n", "t", "e">>,
       <<"t", "r", "i", "n", "t", "a">>,
       <<"q", "u", "a", "r", "e", "n", "t", "a">>,
       <<"c", "i", "n", "q", "u", "e", "n", "t", "a">>,
       <<"s", "e", "s", "s", "e", "n", "t", "a">>,
       <<"s", "e", "t", "e", "n", "t", "a">>,
       <<"o", "i", "t", "e", "n", "t", "a">>,
       <<"n", "o", "v", "e", "n", "t", "a">> >>

N2wCentenas ==
    << <<"c", "e", "n", "t", "o">>,
       <<"d", "u", "z", "e", "n", "t", "o", "s">>,
       <<"t", "r", "e", "z", "e", "n", "t", "o", "s">>,
       <<"q", "u", "a", "t", "r", "o", "c", "e", "n", "t", "o", "s">>,
       <<"q", "u", "i", "n", "h", "e", "n", "t", "o", "s">>,
       <<"s", "e", "i", "s", "c", "e", "n", "t", "o", "s">>,
       <<"s", "e", "t", "e", "c", "e", "n", "t", "o", "s">>,
       <<"o", "i", "t", "o", "c", "e", "n", "t", "o", "s">>,
       <<"n", "o", "v", "e", "c", "e", "n", "t", "o", "s">> >>

N2wE == <<" ", "e", " ">>

\* num2words(val, lang='pt_BR') for 1 <= val <= 99
Num2WordsAte99(val) ==
    IF val <= 19 THEN N2wUnidades[val]
    ELSE IF val % 10 = 0 THEN N2wDezenas[val \div 10]
    ELSE N2wDezenas[val \div 10] \o N2wE \o N2wUnidades[val % 10]

\* num2words(val, lang='pt_BR') for 1 <= val <= 999
Num2Words(val) ==
    IF val <= 99 THEN Num2WordsAte99(val)
    ELSE IF val = 100 THEN <<"c", "e", "m">>
    ELSE IF val % 100 = 0 THEN N2wCentenas[val \div 100]
    ELSE N2wCentenas[val \div 100] \o N2wE \o Num2WordsAte99(val % 100)

DigitoValor(c) ==
    CASE c = "0" -> 0 [] c = "1" -> 1 [] c = "2" -> 2 [] c = "3" -> 3 [] c = "4" -> 4
      [] c = "5" -> 5 [] c = "6" -> 6 [] c = "7" -> 7 [] c = "8" -> 8 [] c = "9" -> 9

\* int(raw)
RECURSIVE ParseInt(_)
ParseInt(raw) ==
    IF raw = <<>> THEN 0
    ELSE 10 * ParseInt(SubSeq(raw, 1, Len(raw) - 1)) + DigitoValor(raw[Len(raw)])

LimiteExtenso == 1000

\* the pattern without its lookahead (?![.,\d])
MNumeroSemLookahead(s, i) ==
    IF /\ s[i] \in Digitos \ {"0"}
       /\ At(s, i - 1) \notin {",", "."} \cup Digitos
       /\ ~IsWord(At(s, i - 1))
    THEN LET d == RunLen(s, i, Digitos)
         IN  IF d <= 3 /\ ~IsWord(At(s, i + d)) THEN d ELSE 0
    ELSE 0

\* r'(?<![,.\d])\b([1-9]\d{0,2})\b(?![.,\d])'
MNumero(s, i) ==
    IF /\ s[i] \in Digitos \ {"0"}
       /\ At(s, i - 1) \notin {",", "."} \cup Digitos
       /\ ~IsWord(At(s, i - 1))
    THEN LET d == RunLen(s, i, Digitos)
         IN  IF /\ d <= 3
                /\ ~IsWord(At(s, i + d))
                /\ At(s, i + d) \notin {".", ","} \cup Digitos
             THEN d
             ELSE 0
    ELSE 0

\* _conv
RNumero(s, i) ==
    LET raw == SubSeq(s, i, i + MNumero(s, i) - 1)
        val == ParseInt(raw)
    IN  IF val >= LimiteExtenso THEN raw ELSE Num2Words(val)

-----------------------------------------------------------------------------
(* _preparar_texto                                                          *)

\* r'\.{2,}'
MReticencias(s, i) ==
    IF s[i] = "." /\ RunLen(s, i, {"."}) >= 2 THEN RunLen(s, i, {"."}) ELSE 0

\* r'\s*--\s*'
MHifens(s, i) ==
    LET w == RunLen(s, i, Espacos)
    IN  IF At(s, i + w) = "-" /\ At(s, i + w + 1) = "-"
        THEN w + 2 + RunLen(s, i + w + 2, Espacos)
        ELSE 0

\* Length of the match of a compiled pattern at position i (0: no match).
Match(p, s, i) ==
    CASE p.tipo = "nao_latino" -> MNaoLatino(s, i)
      [] p.tipo = "markdown_tts" -> MMarkdownTts(s, i)
      [] p.tipo = "markdown_cb" -> MMarkdownCb(s, i)
      [] p.tipo = "colchetes" -> MColchetes(s, i)
      [] p.tipo = "parenteses" -> MParenteses(s, i)
      [] p.tipo = "palavra_cena" -> MPalavraCena(s, i)
      [] p.tipo = "espacos" -> MEspacos(s, i)
      [] p.tipo = "abreviacao" -> MAbreviacao(s, i, p.regra)
      [] p.tipo = "seculo" -> MSeculo(s, i)
      [] p.tipo = "unidade" -> MUnidade(s, i, p.regra)
      [] p.tipo = "numero" -> MNumero(s, i)
      [] p.tipo = "reticencias" -> MReticencias(s, i)
      [] p.tipo = "hifens" -> MHifens(s, i)

\* What re.sub puts in place of the match of p at position i.
Repl(p, s, i) ==
    CASE p.tipo = "espacos" -> <<" ">>
      [] p.tipo = "abreviacao" -> p.regra.repl
      [] p.tipo = "seculo" -> RSeculo(s, i)
      [] p.tipo = "unidade" -> RUnidade(s, i, p.regra)
      [] p.tipo = "numero" -> RNumero(s, i)
      [] p.tipo = "reticencias" -> <<".">>
      [] p.tipo = "hifens" -> <<",", " ">>
      [] OTHER -> <<>>

\* re.sub(p, repl, s) from position i on: the scan goes left to right and
\* resumes after each match; a character no match starts at is copied.
\* the start of the leftmost match at or after i, Len(s) + 1 when there is none
ProximoMatch(p, s, i) ==
    CHOOSE j \in i..(Len(s) + 1) :
        /\ j = Len(s) + 1 \/ Match(p, s, j) > 0
        /\ \A k \in i..(j - 1) : Match(p, s, k) = 0

RECURSIVE ReSubFrom(_, _, _)
ReSubFrom(p, s, i) ==
    IF i > Len(s) THEN <<>>
    ELSE LET j == ProximoMatch(p, s, i)
         IN  IF j > Len(s) THEN SubSeq(s, i, Len(s))
             ELSE SubSeq(s, i, j - 1) \o Repl(p, s, j)
                      \o ReSubFrom(p, s, j + Match(p, s, j))

ReSub(p, s) == ReSubFrom(p, s, 1)

Pat(tipo) == [tipo |-> tipo]

\* txt = re.sub(pattern, repl, txt) for each pattern of tipos in turn, from the
\* k-th on
RECURSIVE AplicarPadroes(_, _, _)
AplicarPadroes(tipos, k, txt) ==
    IF k > Len(tipos) THEN txt
    ELSE AplicarPadroes(tipos, k + 1, ReSub(Pat(tipos[k]), txt))

LimparTextoTts(txt) ==
    Strip(AplicarPadroes(<<"nao_latino", "markdown_tts", "espacos">>, 1, txt))

LimparTextoCb(txt) ==
    Strip(AplicarPadroes(<<"nao_latino", "colchetes", "parenteses", "palavra_cena",
                           "markdown_cb", "espacos">>, 1, txt))

LimparTexto(nar, txt) ==
    IF nar = "TTSNarrator" THEN LimparTextoTts(txt) ELSE LimparTextoCb(txt)

\* for pattern, repl in subs: txt = re.sub(pattern, repl, txt), from rule k on
RECURSIVE AplicarAbreviacoes(_, _, _)
AplicarAbreviacoes(tabela, k, txt) ==
    IF k > Len(tabela) THEN txt
    ELSE AplicarAbreviacoes(tabela, k + 1,
             ReSub([tipo |-> "abreviacao", regra |-> tabela[k]], txt))

RECURSIVE AplicarUnidades(_, _, _)
AplicarUnidades(tabela, k, txt) ==
    IF k > Len(tabela) THEN txt
    ELSE AplicarUnidades(tabela, k + 1,
             ReSub([tipo |-> "unidade", regra |-> tabela[k]], txt))

ExpandirAbreviacoes(nar, txt) ==
    IF nar = "TTSNarrator"
    THEN AplicarUnidades(UnidadesTts, 1,
             ReSub(Pat("seculo"), AplicarAbreviacoes(AbreviacoesTts, 1, txt)))
    ELSE AplicarUnidades(UnidadesCb, 1, AplicarAbreviacoes(AbreviacoesCb, 1, txt))

\* disponivel: the import of num2words succeeds
NumerosPorExtenso(disponivel, txt) ==
    IF disponivel THEN ReSub(Pat("numero"), txt) ELSE txt

\* _preparar_texto returning texto instead of texto.strip()
PrepararTextoSemStrip(nar, disponivel, txt) ==
    AplicarPadroes(<<"reticencias", "hifens", "espacos">>, 1,
        NumerosPorExtenso(disponivel, ExpandirAbreviacoes(nar, LimparTexto(nar, txt))))

PrepararTexto(nar, disponivel, txt) ==
    Strip(AplicarPadroes(<<"reticencias", "hifens", "espacos">>, 1,
              NumerosPorExtenso(disponivel,
                  ExpandirAbreviacoes(nar, LimparTexto(nar, txt)))))

-----------------------------------------------------------------------------
(* _dividir_em_sentencas                                                    *)

\* r'(?<=[.!?])\s+'
MFimSentenca(s, i) ==
    IF s[i] \in Espacos /\ At(s, i - 1) \in {".", "!", "?"}
    THEN RunLen(s, i, Espacos)
    ELSE 0

\* r'(?<=,)\s+'
MAposVirgula(s, i) ==
    IF s[i] \in Espacos /\ At(s, i - 1) = "," THEN RunLen(s, i, Espacos) ELSE 0

MSeparador(sep, s, i) ==
    IF sep = "sentenca" THEN MFimSentenca(s, i) ELSE MAposVirgula(s, i)

\* re.split(sep, s): the pieces between the matches, from position i on, the
\* current piece starting at ini.
\* the start of the leftmost separator at or after i, Len(s) + 1 when there is none
ProximoSeparador(sep, s, i) ==
    CHOOSE j \in i..(Len(s) + 1) :
        /\ j = Len(s) + 1 \/ MSeparador(sep, s, j) > 0
        /\ \A k \in i..(j - 1) : MSeparador(sep, s, k) = 0

RECURSIVE ReSplitFrom(_, _, _, _)
ReSplitFrom(sep, s, i, ini) ==
    LET j == ProximoSeparador(sep, s, i)
    IN  IF j > Len(s) THEN <<SubSeq(s, ini, Len(s))>>
        ELSE <<SubSeq(s, ini, j - 1)>>
                 \o ReSplitFrom(sep, s, j + MSeparador(sep, s, j), j + MSeparador(sep, s, j))

ReSplit(sep, s) == ReSplitFrom(sep, s, 1, 1)

\* (a + " " + b).strip() if a else b
Juntar(a, b) == IF a # <<>> THEN Strip(a \o <<" ">> \o b) ELSE b

\* the clause loop without its length test: every clause joins the pending sub
PassoClausulaSemLimite(c, sub, sents, max_chars) ==
    [sub |-> Juntar(sub, c), sents |-> sents]

\* the body of "for c in clausulas": the pending sub and the chunks emitted so
\* far, after clause c
PassoClausula(c, sub, sents, max_chars) ==
    IF Len(sub) + Len(c) + 1 <= max_chars
    THEN [sub |-> Juntar(sub, c), sents |-> sents]
    ELSE [sub |-> c, sents |-> IF sub # <<>> THEN Append(sents, Strip(sub)) ELSE sents]

\* for c in clausulas: ... from clause k on
RECURSIVE EmpacotarClausulas(_, _, _, _, _)
EmpacotarClausulas(clausulas, k, sub, sents, max_chars) ==
    IF k > Len(clausulas) THEN [sub |-> sub, sents |-> sents]
    ELSE LET p == PassoClausula(clausulas[k], sub, sents, max_chars)
         IN  EmpacotarClausulas(clausulas, k + 1, p.sub, p.sents, max_chars)

\* the part loop without 'if buffer: sentencas.append(buffer.strip())' where a
\* part that fits the bound does not fit the buffer: the buffer is overwritten
PassoParteSemDescarga(parte, buffer, sents, max_chars) ==
    LET descarregado == IF buffer # <<>> THEN Append(sents, Strip(buffer)) ELSE sents
    IN  IF Strip(parte) = <<>>
        THEN [buffer |-> buffer, sents |-> sents]
        ELSE IF Len(buffer) + Len(parte) + 1 <= max_chars
        THEN [buffer |-> Juntar(buffer, parte), sents |-> sents]
        ELSE IF Len(parte) > max_chars
        THEN LET r == EmpacotarClausulas(ReSplit("clausula", parte), 1, <<>>,
                                         descarregado, max_chars)
             IN  [buffer |-> r.sub, sents |-> r.sents]
        ELSE [buffer |-> parte, sents |-> sents]

\* the body of "for parte in partes": the pending buffer and the chunks emitted
\* so far, after part parte
PassoParte(parte, buffer, sents, max_chars) ==
    LET descarregado == IF buffer # <<>> THEN Append(sents, Strip(buffer)) ELSE sents
    IN  IF Strip(parte) = <<>>
        THEN [buffer |-> buffer, sents |-> sents]
        ELSE IF Len(buffer) + Len(parte) + 1 <= max_chars
        THEN [buffer |-> Juntar(buffer, parte), sents |-> sents]
        ELSE IF Len(parte) > max_chars
        THEN LET r == EmpacotarClausulas(ReSplit("clausula", parte), 1, <<>>,
                                         descarregado, max_chars)
             IN  [buffer |-> r.sub, sents |-> r.sents]
        ELSE [buffer |-> parte, sents |-> descarregado]

\* for parte in partes: ... from part k on
RECURSIVE EmpacotarPartes(_, _, _, _, _)
EmpacotarPartes(partes, k, buffer, sents, max_chars) ==
    IF k > Len(partes) THEN [buffer |-> buffer, sents |-> sents]
    ELSE LET p == PassoParte(partes[k], buffer, sents, max_chars)
         IN  EmpacotarPartes(partes, k + 1, p.buffer, p.sents, max_chars)

DividirEmSentencas(txt, max_chars) ==
    LET r == EmpacotarPartes(ReSplit("sentenca", txt), 1, <<>>, <<>>, max_chars)
        sents ==
            IF r.buffer # <<>> THEN Append(r.sents, Strip(r.buffer)) ELSE r.sents
    IN  SelectSeq(sents, LAMBDA x : Strip(x) # <<>>)

\* max_chars: int = 230 / 200
MaxCharsPadrao(nar) == IF nar = "TTSNarrator" THEN 230 ELSE 200

-----------------------------------------------------------------------------
(* AudioSegment: a track is the sequence of its pieces, each a stretch       *)
(* [ini, fim) in ms of the engine's output for one chunk or a silence, and   *)
(* the post-processing stages applied to it.                                 *)

Voz(k, ini, fim) ==
    [pecas |-> <<[tipo |-> "voz", origem |-> "motor", chunk |-> k, ini |-> ini, fim |-> fim]>>,
     etapas |-> <<>>]

\* AudioSegment.silent(duration=ms); origem tells which statement made it
Silent(origem, ms) ==
    [pecas |-> <<[tipo |-> "silencio", origem |-> origem, chunk |-> 0, ini |-> 0, fim |-> ms]>>,
     etapas |-> <<>>]

\* AudioSegment.empty()
AudioEmpty == [pecas |-> <<>>, etapas |-> <<>>]

\* a + b
Concat(a, b) == [pecas |-> a.pecas \o b.pecas, etapas |-> a.etapas]

RECURSIVE SomaMs(_)
SomaMs(pecas) ==
    IF pecas = <<>> THEN 0
    ELSE (pecas[1].fim - pecas[1].ini) + SomaMs(Tail(pecas))

\* len(audio)
Duracao(audio) == SomaMs(audio.pecas)

Max(a, b) == IF a >= b THEN a ELSE b

\* _PAUSAS_MS
PausasMs(nar) ==
    IF nar = "TTSNarrator"
    THEN ("." :> 380) @@ ("!" :> 320) @@ ("?" :> 320) @@ (";" :> 220) @@ (":" :> 180)
             @@ ("," :> 90)
    ELSE ("." :> 120) @@ ("!" :> 100) @@ ("?" :> 110) @@ (";" :> 80) @@ (":" :> 70)
             @@ ("," :> 40)

\* _PAUSA_DEFAULT_MS
PausaDefaultMs(nar) == IF nar = "TTSNarrator" THEN 250 ELSE 80

\* sentenca[-1] looked up without the rstrip()
PausaPorPontuacaoSemRstrip(nar, sentenca) ==
    LET ultimo == IF sentenca # <<>> THEN sentenca[Len(sentenca)] ELSE "."
        ms == IF ultimo \in DOMAIN PausasMs(nar) THEN PausasMs(nar)[ultimo]
              ELSE PausaDefaultMs(nar)
    IN  Silent("pausa", ms)

\* _pausa_por_pontuacao
PausaPorPontuacao(nar, sentenca) ==
    LET r == RStrip(sentenca)
        ultimo == IF r # <<>> THEN r[Len(r)] ELSE "."
        ms == IF ultimo \in DOMAIN PausasMs(nar) THEN PausasMs(nar)[ultimo]
              ELSE PausaDefaultMs(nar)
    IN  Silent("pausa", ms)

HeadMs == 40

TailMs == 80

\* _strip_silence returning audio[lead:end] whatever lead and end are
StripSilenceSemFallback(k, w) ==
    Voz(k, Max(0, w.lead - HeadMs),
        IF Max(0, w.trail - TailMs) > 0 THEN w.ms - Max(0, w.trail - TailMs) ELSE w.ms)

\* _strip_silence of the engine's output w for chunk k; w.lead and w.trail are
\* what detect_leading_silence finds on the audio and on its reverse
StripSilence(k, w) ==
    LET lead == Max(0, w.lead - HeadMs)
        trail == Max(0, w.trail - TailMs)
        end == IF trail > 0 THEN w.ms - trail ELSE w.ms
    IN  IF end > lead THEN Voz(k, lead, end) ELSE Voz(k, 0, w.ms)

\* the chunk normalized and faded as it is read, before the assembly
LerSegmentoPosProcessado(nar, k, w) ==
    [pecas |-> Voz(k, 0, w.ms).pecas, etapas |-> <<"normalize", "fade_in", "fade_out">>]

\* seg = AudioSegment.from_wav(tmp_path), then _strip_silence (TTSNarrator) or
\* the 8 ms / 12 ms fades, which keep the length (ChatterboxNarrator)
LerSegmento(nar, k, w) ==
    IF nar = "TTSNarrator" THEN StripSilence(k, w) ELSE Voz(k, 0, w.ms)

FallbackMs == 500

VazioMs == 1000

\* the assembly loop with "audio_final = seg + audio_final": each segment, and
\* its pause, put before what is already assembled
RECURSIVE MontarDeInvertido(_, _, _, _)
MontarDeInvertido(nar, segs, idx, audio) ==
    IF idx > Len(segs) THEN audio
    ELSE MontarDeInvertido(nar, segs, idx + 1,
             IF idx < Len(segs)
             THEN Concat(Concat(PausaPorPontuacao(nar, segs[idx].sent), segs[idx].seg), audio)
             ELSE Concat(segs[idx].seg, audio))

\* the assembly loop without its "idx < len(segmentos) - 1" test: a pause after
\* every segment, the last one too
RECURSIVE MontarDePausaFinal(_, _, _, _)
MontarDePausaFinal(nar, segs, idx, audio) ==
    IF idx > Len(segs) THEN audio
    ELSE MontarDePausaFinal(nar, segs, idx + 1,
             Concat(Concat(audio, segs[idx].seg), PausaPorPontuacao(nar, segs[idx].sent)))

\* for idx, (sent, seg) in enumerate(segmentos): ... from pair idx on
RECURSIVE MontarDe(_, _, _, _)
MontarDe(nar, segs, idx, audio) ==
    IF idx > Len(segs) THEN audio
    ELSE LET com_seg == Concat(audio, segs[idx].seg)
         IN  MontarDe(nar, segs, idx + 1,
                 IF idx < Len(segs)
                 THEN Concat(com_seg, PausaPorPontuacao(nar, segs[idx].sent))
                 ELSE com_seg)

Montar(nar, segs) == MontarDe(nar, segs, 1, AudioEmpty)

\* the stages applied when the exception of the filter stage is not caught:
\* none after the filter stage
EtapasPosSemExcept(nar, filtros_ok) ==
    IF ~filtros_ok THEN <<>>
    ELSE (IF nar = "TTSNarrator" THEN <<"passa_altas_80", "noise_gate">>
          ELSE <<"passa_altas_60">>)
         \o <<"normalize", "compress_dynamic_range", "apply_gain", "fade_in", "fade_out">>

\* the stages _pos_processar applies; filtros_ok is FALSE when the filter
\* stage raises and is skipped
EtapasPos(nar, filtros_ok) ==
    (IF ~filtros_ok THEN <<>>
     ELSE IF nar = "TTSNarrator" THEN <<"passa_altas_80", "noise_gate">>
     ELSE <<"passa_altas_60">>)
    \o <<"normalize", "compress_dynamic_range", "apply_gain", "fade_in", "fade_out">>

\* audio.sample_width of a track: a sum has the larger width of its operands,
\* AudioSegment.silent and AudioSegment.empty are at most 2 bytes wide, and the
\* engine's segments are as wide as the engine writes them
LarguraFaixa(audio, motor) ==
    IF \E j \in 1..Len(audio.pecas) : audio.pecas[j].tipo = "voz" THEN motor.largura ELSE 2

\* bytes per sample of the array the filter stage hands to audio._spawn:
\* astype(np.int16 if audio.sample_width == 2 else np.int32) in TTSNarrator,
\* astype(np.int16) in ChatterboxNarrator
BytesFiltro(nar, largura) == IF nar = "TTSNarrator" /\ largura # 2 THEN 4 ELSE 2

\* audio._spawn(out.tobytes()): the filtered samples in place of the track's
\* when the array has the track's width; else its bytes read at the track's
\* width, which are no chunk's audio and last bytes / largura as long
Spawn(audio, bytes, largura) ==
    IF bytes = largura THEN audio.pecas
    ELSE <<[tipo |-> "bytes", origem |-> "filtro", chunk |-> 0, ini |-> 0,
            fim |-> (Duracao(audio) * bytes) \div largura]>>

\* _pos_processar on a track of the given sample width; normalize,
\* compress_dynamic_range, apply_gain and the fades keep the samples' number
PosProcessarAudio(nar, audio, filtros_ok, largura) ==
    [pecas |-> IF filtros_ok THEN Spawn(audio, BytesFiltro(nar, largura), largura)
               ELSE audio.pecas,
     etapas |-> audio.etapas \o EtapasPos(nar, filtros_ok)]

-----------------------------------------------------------------------------
(* The engine                                                               *)

SemWav == [escrito |-> FALSE, ms |-> 0, lead |-> 0, trail |-> 0]

\* The waveforms the engine may write for a chunk.
Ondas == {[escrito |-> TRUE, ms |-> 1000, lead |-> 100, trail |-> 200]}

SemMotor == [carregado |-> FALSE, multilingue |-> FALSE, largura |-> 2]

\* Bytes per sample of the segments read from the engine's files: Coqui TTS
\* writes 16-bit PCM; torchaudio.save writes the float tensor of Chatterbox as
\* 32-bit samples unless told otherwise
Larguras(nar) == IF nar = "TTSNarrator" THEN {2} ELSE {2, 4}

Preferidos == <<"Ana Florence", "Gilberto Mathias", "Claribel Dervla">>

\* What the engine may offer as its speakers.
Ofertas == {<<>>, <<"Outra Voz", "Ana Florence">>, <<"Outra Voz">>}

Elementos(seq) == {seq[k] : k \in 1..Len(seq)}

\* next((s for s in speakers if s in preferidos), speakers[0]): the first
\* offered identity that is a preferred one, in the order of the offer
PrimeiroPreferidoNaOferta(speakers) ==
    IF \E k \in 1..Len(speakers) : speakers[k] \in Elementos(Preferidos)
    THEN speakers[CHOOSE k \in 1..Len(speakers) :
                      /\ speakers[k] \in Elementos(Preferidos)
                      /\ \A m \in 1..(k - 1) : speakers[m] \notin Elementos(Preferidos)]
    ELSE speakers[1]

\* next((s for s in preferidos if s in speakers), speakers[0])
PrimeiroPreferido(speakers) ==
    LET ks == {k \in 1..Len(Preferidos) : Preferidos[k] \in Elementos(speakers)}
    IN  IF ks = {} THEN speakers[1]
        ELSE Preferidos[CHOOSE k \in ks : \A m \in ks : k <= m]

\* the speaker after _get_tts loaded the engine: direto is tts.speakers,
\* gerente what the speaker manager gives (gerente.ok FALSE: it raised)
AutoSpeaker(clonagem, spk, xtts, direto, gerente) ==
    IF clonagem \/ spk # "None" THEN spk
    ELSE LET speakers == IF direto # <<>> THEN direto
                         ELSE IF gerente.ok THEN gerente.nomes ELSE <<>>
         IN  IF speakers # <<>> THEN PrimeiroPreferido(speakers)
             ELSE IF xtts THEN "Daisy Studious"
             ELSE spk

\* the keyword arguments of one engine call
Kwargs(nar, clonagem, amostra, spk, xtts, motor) ==
    IF nar = "TTSNarrator"
    THEN IF clonagem
         THEN [speaker_wav |-> amostra, speaker |-> "None", language |-> TRUE]
         ELSE [speaker_wav |-> "None", speaker |-> spk,
               language |-> (motor.multilingue \/ xtts)]
    ELSE [speaker_wav |-> IF clonagem THEN amostra ELSE "None", speaker |-> "None",
          language |-> FALSE]

\* "speaker" not in kwargs
SemSpeaker(nar, clonagem, spk) == nar = "TTSNarrator" /\ ~clonagem /\ spk = "None"

-----------------------------------------------------------------------------
(* Inputs                                                                   *)

Narradores == {"TTSNarrator", "ChatterboxNarrator"}

\* Length of the long sentences and clauses of the scene texts.
LenFrase == 120

Rep(c, n) == [k \in 1..n |-> c]

\* cena.naracao of the scenes a caller may ask for, by scene number
Cenas ==
    << <<>>,
       <<" ", "[", "*", "]", "\n">>,
       <<"D", "r", ".", " ", "W", " ", "t", "e", "m", " ", "2", " ", "k", "m", ".">>,
       Rep("a", LenFrase) \o <<".", " ">> \o Rep("b", LenFrase) \o <<"?", " ">>
           \o Rep("c", LenFrase) \o <<"!">>,
       Rep("a", LenFrase) \o <<",", " ">> \o Rep("b", LenFrase) \o <<",", " ">>
           \o Rep("c", LenFrase) \o <<".", " ", "F", "i", "m">> >>

\* The scenes of at most one chunk: only these are followed by another call.
CenasCurtas == {1, 3}

\* Most calls of sintetizar_cena on one narrator.
MaxChamadas == 2

RECURSIVE SeqsAte(_, _)
SeqsAte(S, n) ==
    IF n = 0 THEN {<<>>}
    ELSE LET menores == SeqsAte(S, n - 1)
         IN  menores \cup {Append(q, x) : q \in {m \in menores : Len(m) = n - 1}, x \in S}

Planos ==
    {<<c>> : c \in 1..Len(Cenas)}
        \cup {q \in SeqsAte(CenasCurtas, MaxChamadas) : Len(q) >= 2}

SemResultado == [tipo |-> "nenhum", valor |-> "None"]

\* Texts a method is called with in isolation.
MaxLenPausa == 2

AlfabetoPausa == {".", "!", "?", ";", ":", ",", "a", " "}

-----------------------------------------------------------------------------
(* State after construction                                                 *)

\* the call-local state before any call
SemChamada ==
    /\ pc = "idle"
    /\ chamadas = 0
    /\ cena = 0
    /\ output_path = 0
    /\ texto = <<>>
    /\ sentencas = <<>>
    /\ i_sent = 0
    /\ tmp_path = 0
    /\ wav = SemWav
    /\ segmentos = <<>>
    /\ pendente = "nenhuma"
    /\ audio_final = AudioEmpty
    /\ resultado = SemResultado
    /\ disco = <<>>
    /\ temporarios = {}
    /\ criados = 0
    /\ motor_log = <<>>
    /\ erros = {}
    /\ pos_log = <<>>

SemMetodo ==
    /\ chamada = "nenhuma"
    /\ fase = "nenhuma"
    /\ arg = <<>>
    /\ argMax = 0
    /\ ret = <<>>
    /\ ret2 = <<>>

\* after __init__ with no conditioned reference: the sample was not conditioned
\* (ChatterboxNarrator, no sample) or the conditioning failed before its temp file
Construido ==
    /\ vida = "pronto"
    /\ ref_tmp = "None"
    /\ ref_arquivo = "ausente"
    /\ ref_log = "nenhum"
    /\ torchaudio = TRUE

\* __init__: a narrator of either class, with or without an existing voice
\* sample, a configured speaker, an XTTS model name
InitNarrador ==
    /\ narrador \in Narradores
    /\ n2w \in BOOLEAN
    /\ modo_clonagem \in BOOLEAN
    /\ voice_sample = IF modo_clonagem THEN "ref.wav" ELSE "None"
    /\ speaker \in IF narrador = "TTSNarrator" THEN {"None", "Config"} ELSE {"None"}
    /\ modelo_xtts \in IF narrador = "TTSNarrator" THEN BOOLEAN ELSE {FALSE}
    /\ tts = SemMotor
    /\ Construido

\* a narrator whose configuration the method called in isolation does not read
InitNarradorPadrao ==
    /\ narrador \in Narradores
    /\ n2w \in BOOLEAN
    /\ modo_clonagem = FALSE
    /\ voice_sample = "None"
    /\ speaker = "None"
    /\ modelo_xtts = FALSE
    /\ tts = SemMotor
    /\ Construido

InitCena ==
    /\ InitNarrador
    /\ plano \in Planos
    /\ SemChamada
    /\ SemMetodo

InitPausa ==
    /\ InitNarradorPadrao
    /\ n2w = TRUE
    /\ plano = <<>>
    /\ SemChamada
    /\ chamada = "_pausa_por_pontuacao"
    /\ fase = "chamada"
    /\ arg \in SeqsAte(AlfabetoPausa, MaxLenPausa)
    /\ argMax = 0
    /\ ret = <<>>
    /\ ret2 = <<>>

Init == InitCena \/ InitPausa

-----------------------------------------------------------------------------
(* sintetizar_cena                                                          *)

narradorVars ==
    <<narrador, n2w, modo_clonagem, voice_sample, modelo_xtts, vida, ref_tmp, ref_arquivo,
      ref_log, torchaudio>>

metodoVars == <<chamada, fase, arg, argMax, ret, ret2>>

Excecao(nome) == [tipo |-> "excecao", valor |-> nome]

\* sintetizar_por_cenas is running
EmLote == chamada = "sintetizar_por_cenas"

\* the caller calls sintetizar_cena(cena.naracao, output_path): any caller with a
\* path of its own, whatever the last call did, or the loop of
\* sintetizar_por_cenas with cena_{cena.numero:02d}.wav, once the last path was
\* appended
Chamar ==
    /\ vida = "pronto"
    /\ IF EmLote
       THEN fase = "cenas" /\ pc \in {"idle", "returned"} /\ Len(ret2) = chamadas
       ELSE pc \in {"idle", "returned", "raised"}
    /\ chamadas < Len(plano)
    /\ chamadas' = chamadas + 1
    /\ cena' = plano[chamadas + 1]
    /\ output_path' = IF EmLote THEN plano[chamadas + 1] ELSE chamadas + 1
    /\ pc' = "get_tts"
    /\ texto' = <<>>
    /\ sentencas' = <<>>
    /\ i_sent' = 0
    /\ tmp_path' = 0
    /\ wav' = SemWav
    /\ segmentos' = <<>>
    /\ pendente' = "nenhuma"
    /\ audio_final' = AudioEmpty
    /\ resultado' = SemResultado
    /\ motor_log' = <<>>
    /\ erros' = {}
    /\ pos_log' = <<>>
    /\ UNCHANGED <<narradorVars, speaker, tts, plano, disco, temporarios, criados, metodoVars>>

\* _get_tts / _get_model: the handle is already there
GetTtsCarregado ==
    /\ pc = "get_tts"
    /\ tts.carregado
    /\ pc' = "preparar"
    /\ UNCHANGED <<narradorVars, speaker, tts, plano, chamadas, cena, output_path, texto,
                   sentencas, i_sent, tmp_path, wav, segmentos, pendente, audio_final,
                   resultado, disco, temporarios, criados, motor_log, erros, pos_log,
                   metodoVars>>

\* a load that stores the handle before the construction is known to succeed
GetTtsFalhaGuardaHandle ==
    /\ pc = "get_tts"
    /\ ~tts.carregado
    /\ tts' = [tts EXCEPT !.carregado = TRUE]
    /\ pc' = "raised"
    /\ resultado' = Excecao("ImportError")
    /\ UNCHANGED <<narradorVars, speaker, plano, chamadas, cena, output_path, texto,
                   sentencas, i_sent, tmp_path, wav, segmentos, pendente, audio_final,
                   disco, temporarios, criados, motor_log, erros, pos_log, metodoVars>>

\* _get_tts / _get_model: the import or the construction of the engine raises
GetTtsFalha ==
    /\ pc = "get_tts"
    /\ ~tts.carregado
    /\ pc' = "raised"
    /\ resultado' = Excecao("ImportError")
    /\ UNCHANGED <<narradorVars, speaker, tts, plano, chamadas, cena, output_path, texto,
                   sentencas, i_sent, tmp_path, wav, segmentos, pendente, audio_final,
                   disco, temporarios, criados, motor_log, erros, pos_log, metodoVars>>

\* _get_tts / _get_model: the engine is loaded; TTSNarrator then selects a speaker
GetTtsCarrega ==
    /\ pc = "get_tts"
    /\ ~tts.carregado
    /\ \E m \in IF narrador = "TTSNarrator" /\ ~modelo_xtts THEN BOOLEAN ELSE {TRUE},
          l \in Larguras(narrador) :
           tts' = [carregado |-> TRUE, multilingue |-> m, largura |-> l]
    /\ \E direto \in Ofertas, nomes \in Ofertas, ok \in BOOLEAN :
           speaker' = IF narrador = "TTSNarrator"
                      THEN AutoSpeaker(modo_clonagem, speaker, modelo_xtts, direto,
                                       [ok |-> ok, nomes |-> nomes])
                      ELSE speaker
    /\ pc' = "preparar"
    /\ UNCHANGED <<narradorVars, plano, chamadas, cena, output_path, texto, sentencas,
                   i_sent, tmp_path, wav, segmentos, pendente, audio_final, resultado,
                   disco, temporarios, criados, motor_log, erros, pos_log, metodoVars>>

\* texto = self._preparar_texto(texto); the test of the empty text;
\* sentencas = self._dividir_em_sentencas(texto)
Preparar ==
    /\ pc = "preparar"
    /\ LET t == PrepararTexto(narrador, n2w, Cenas[cena])
       IN  /\ texto' = t
           /\ IF t = <<>>
              THEN /\ pc' = "silencio"
                   /\ UNCHANGED <<sentencas, i_sent>>
              ELSE /\ sentencas' = DividirEmSentencas(t, MaxCharsPadrao(narrador))
                   /\ i_sent' = 1
                   /\ pc' = "loop"
    /\ UNCHANGED <<narradorVars, speaker, tts, plano, chamadas, cena, output_path,
                   tmp_path, wav, segmentos, pendente, audio_final, resultado, disco,
                   temporarios, criados, motor_log, erros, pos_log, metodoVars>>

\* the file at path holds audio
Gravar(d, path, audio) ==
    [q \in DOMAIN d \cup {path} |-> IF q = path THEN audio ELSE d[q]]

\* AudioSegment.silent(duration=1000).export(output_path); return output_path
ExportarSilencio ==
    /\ pc = "silencio"
    /\ disco' = Gravar(disco, output_path, Silent("vazio", VazioMs))
    /\ pc' = "returned"
    /\ resultado' = [tipo |-> "retorno", valor |-> "output_path"]
    /\ UNCHANGED <<narradorVars, speaker, tts, plano, chamadas, cena, output_path, texto,
                   sentencas, i_sent, tmp_path, wav, segmentos, pendente, audio_final,
                   temporarios, criados, motor_log, erros, pos_log, metodoVars>>

\* an export that raises (the output file cannot be written)
ExportarFalha ==
    /\ pc \in {"silencio", "exportar"}
    /\ pc' = "raised"
    /\ resultado' = Excecao("OSError")
    /\ UNCHANGED <<narradorVars, speaker, tts, plano, chamadas, cena, output_path, texto,
                   sentencas, i_sent, tmp_path, wav, segmentos, pendente, audio_final,
                   disco, temporarios, criados, motor_log, erros, pos_log, metodoVars>>

\* with tempfile.NamedTemporaryFile(suffix=".wav", delete=False) as tmp
CriarTmp ==
    /\ pc = "loop"
    /\ i_sent <= Len(sentencas)
    /\ criados' = criados + 1
    /\ tmp_path' = criados + 1
    /\ temporarios' = temporarios \cup {criados + 1}
    /\ wav' = SemWav
    /\ pc' = "sintetizar"
    /\ UNCHANGED <<narradorVars, speaker, tts, plano, chamadas, cena, output_path, texto,
                   sentencas, i_sent, segmentos, pendente, audio_final, resultado, disco,
                   motor_log, erros, pos_log, metodoVars>>

\* one engine call, as the log keeps it
Entrada(tentativa, spk, desfecho) ==
    [chunk |-> i_sent, tentativa |-> tentativa, desfecho |-> desfecho,
     kwargs |-> Kwargs(narrador, modo_clonagem, voice_sample, spk, modelo_xtts, tts)]

loopVars ==
    <<narradorVars, speaker, tts, plano, chamadas, cena, output_path, texto, sentencas,
      i_sent, tmp_path, audio_final, resultado, disco, temporarios, criados, pos_log,
      metodoVars>>

\* ChatterboxNarrator._sintetizar_sentenca begins with import torchaudio
PodeGerar == narrador = "ChatterboxNarrator" => torchaudio

\* _sintetizar_sentenca: the engine call writes the chunk's audio to tmp_path
SintetizarOk ==
    /\ pc = "sintetizar"
    /\ PodeGerar
    /\ \E w \in Ondas : wav' = w
    /\ motor_log' = Append(motor_log, Entrada(1, speaker, "ok"))
    /\ pc' = "ler"
    /\ UNCHANGED <<loopVars, segmentos, pendente, erros>>

\* _sintetizar_sentenca: the engine call raises and the exception leaves
\* _sintetizar_sentenca
SintetizarErro ==
    /\ pc = "sintetizar"
    /\ PodeGerar
    /\ motor_log' = Append(motor_log, Entrada(1, speaker, "Exception"))
    /\ erros' = erros \cup {i_sent}
    /\ pc' = "except"
    /\ UNCHANGED <<loopVars, wav, segmentos, pendente>>

\* a handler that retries after any ValueError about the speaker, whether or
\* not a speaker was passed
SintetizarErroSpeakerSempre ==
    /\ pc = "sintetizar"
    /\ narrador = "TTSNarrator"
    /\ ~modo_clonagem
    /\ motor_log' = Append(motor_log, Entrada(1, speaker, "ValueError_speaker"))
    /\ pc' = "retry"
    /\ UNCHANGED <<loopVars, wav, segmentos, pendente, erros>>

\* _sintetizar_sentenca: the engine call raises a ValueError about the speaker
\* and no speaker was passed
SintetizarErroSpeaker ==
    /\ pc = "sintetizar"
    /\ SemSpeaker(narrador, modo_clonagem, speaker)
    /\ motor_log' = Append(motor_log, Entrada(1, speaker, "ValueError_speaker"))
    /\ pc' = "retry"
    /\ UNCHANGED <<loopVars, wav, segmentos, pendente, erros>>

\* a retry that keeps the fallback speaker in self.speaker for the calls to come
RetryOkGuardaSpeaker ==
    /\ pc = "retry"
    /\ \E w \in Ondas : wav' = w
    /\ motor_log' = Append(motor_log, Entrada(2, "Daisy Studious", "ok"))
    /\ speaker' = "Daisy Studious"
    /\ pc' = "ler"
    /\ UNCHANGED <<narradorVars, tts, plano, chamadas, cena, output_path, texto,
                   sentencas, i_sent, tmp_path, audio_final, resultado, disco,
                   temporarios, criados, pos_log, metodoVars, segmentos, pendente, erros>>

\* _sintetizar_sentenca: the second engine call, with the fallback speaker
RetryOk ==
    /\ pc = "retry"
    /\ \E w \in Ondas : wav' = w
    /\ motor_log' = Append(motor_log, Entrada(2, "Daisy Studious", "ok"))
    /\ pc' = "ler"
    /\ UNCHANGED <<loopVars, segmentos, pendente, erros>>

RetryErro ==
    /\ pc = "retry"
    /\ motor_log' = Append(motor_log, Entrada(2, "Daisy Studious", "Exception"))
    /\ erros' = erros \cup {i_sent}
    /\ pc' = "except"
    /\ UNCHANGED <<loopVars, wav, segmentos, pendente>>

\* a KeyboardInterrupt arrives during an engine call: not an Exception
Interromper ==
    /\ pc \in {"sintetizar", "retry"}
    /\ PodeGerar
    /\ motor_log' = Append(motor_log,
           IF pc = "sintetizar" THEN Entrada(1, speaker, "KeyboardInterrupt")
           ELSE Entrada(2, "Daisy Studious", "KeyboardInterrupt"))
    /\ pendente' = "KeyboardInterrupt"
    /\ pc' = "finally"
    /\ UNCHANGED <<loopVars, wav, segmentos, erros>>

\* seg = AudioSegment.from_wav(tmp_path); the trimming; segmentos.append((sent, seg))
LerOk ==
    /\ pc = "ler"
    /\ segmentos' = Append(segmentos,
           [sent |-> sentencas[i_sent], seg |-> LerSegmento(narrador, i_sent, wav)])
    /\ pc' = "finally"
    /\ UNCHANGED <<loopVars, wav, pendente, motor_log, erros>>

\* the read-back raises (the engine's file is malformed)
LerErro ==
    /\ pc = "ler"
    /\ erros' = erros \cup {i_sent}
    /\ pc' = "except"
    /\ UNCHANGED <<loopVars, wav, segmentos, pendente, motor_log>>

\* an except clause that logs and re-raises: the chunk's error leaves the call
TratarErroPropaga ==
    /\ pc = "except"
    /\ pendente' = "Exception"
    /\ pc' = "finally"
    /\ UNCHANGED <<loopVars, wav, segmentos, motor_log, erros>>

\* except Exception: segmentos.append((sent, AudioSegment.silent(duration=500)))
TratarErro ==
    /\ pc = "except"
    /\ segmentos' = Append(segmentos,
           [sent |-> sentencas[i_sent], seg |-> Silent("fallback", FallbackMs)])
    /\ pc' = "finally"
    /\ UNCHANGED <<loopVars, wav, pendente, motor_log, erros>>

\* the unlink placed after the try statement instead of in its finally clause:
\* an exception in flight skips it
FinallySemUnlink ==
    /\ pc = "finally"
    /\ temporarios' = IF pendente # "nenhuma" THEN temporarios ELSE temporarios \ {tmp_path}
    /\ IF pendente # "nenhuma"
       THEN /\ pc' = "raised"
            /\ resultado' = Excecao(pendente)
            /\ UNCHANGED i_sent
       ELSE /\ pc' = "loop"
            /\ i_sent' = i_sent + 1
            /\ UNCHANGED resultado
    /\ UNCHANGED <<narradorVars, speaker, tts, plano, chamadas, cena, output_path, texto,
                   sentencas, tmp_path, wav, segmentos, pendente, audio_final, disco,
                   criados, motor_log, erros, pos_log, metodoVars>>

\* finally: if os.path.exists(tmp_path): os.unlink(tmp_path); then the next
\* chunk, or the exception in flight leaves sintetizar_cena
Finally ==
    /\ pc = "finally"
    /\ temporarios' = temporarios \ {tmp_path}
    /\ IF pendente # "nenhuma"
       THEN /\ pc' = "raised"
            /\ resultado' = Excecao(pendente)
            /\ UNCHANGED i_sent
       ELSE /\ pc' = "loop"
            /\ i_sent' = i_sent + 1
            /\ UNCHANGED resultado
    /\ UNCHANGED <<narradorVars, speaker, tts, plano, chamadas, cena, output_path, texto,
                   sentencas, tmp_path, wav, segmentos, pendente, audio_final, disco,
                   criados, motor_log, erros, pos_log, metodoVars>>

\* the assembly loop
MontarAudio ==
    /\ pc = "loop"
    /\ i_sent > Len(sentencas)
    /\ audio_final' = Montar(narrador, segmentos)
    /\ pc' = "pos"
    /\ UNCHANGED <<narradorVars, speaker, tts, plano, chamadas, cena, output_path, texto,
                   sentencas, i_sent, tmp_path, wav, segmentos, pendente, resultado,
                   disco, temporarios, criados, motor_log, erros, pos_log, metodoVars>>

\* audio_final = self._pos_processar(audio_final)
PosProcessar ==
    /\ pc = "pos"
    /\ pos_log' = Append(pos_log, audio_final)
    /\ \E filtros_ok \in BOOLEAN :
           audio_final' = PosProcessarAudio(narrador, audio_final, filtros_ok,
                                            LarguraFaixa(audio_final, tts))
    /\ pc' = "exportar"
    /\ UNCHANGED <<narradorVars, speaker, tts, plano, chamadas, cena, output_path, texto,
                   sentencas, i_sent, tmp_path, wav, segmentos, pendente, resultado,
                   disco, temporarios, criados, motor_log, erros, metodoVars>>

\* audio_final.export(output_path, format="wav"); return output_path
Exportar ==
    /\ pc = "exportar"
    /\ disco' = Gravar(disco, output_path, audio_final)
    /\ pc' = "returned"
    /\ resultado' = [tipo |-> "retorno", valor |-> "output_path"]
    /\ UNCHANGED <<narradorVars, speaker, tts, plano, chamadas, cena, output_path, texto,
                   sentencas, i_sent, tmp_path, wav, segmentos, pendente, audio_final,
                   temporarios, criados, motor_log, erros, pos_log, metodoVars>>

cenaVars ==
    <<speaker, tts, plano, chamadas, pc, cena, output_path, texto, sentencas, i_sent,
      tmp_path, wav, segmentos, pendente, audio_final, resultado, disco, temporarios,
      criados, motor_log, erros, pos_log>>

\* _pausa_por_pontuacao(arg) called in isolation
RetornarPausa ==
    /\ chamada = "_pausa_por_pontuacao"
    /\ fase = "chamada"
    /\ ret' = PausaPorPontuacao(narrador, arg)
    /\ fase' = "retornou"
    /\ UNCHANGED <<narradorVars, cenaVars, chamada, arg, argMax, ret2>>

vars ==
    <<narrador, n2w, modo_clonagem, voice_sample, speaker, modelo_xtts, tts, vida,
      ref_tmp, ref_arquivo, ref_log, torchaudio, plano, chamadas, pc, cena, output_path, texto, sentencas, i_sent, tmp_path, wav,
      segmentos, pendente, audio_final, resultado, disco, temporarios, criados,
      motor_log, erros, pos_log, chamada, fase, arg, argMax, ret, ret2>>

Next ==
    \/ Chamar
    \/ GetTtsCarregado
    \/ GetTtsFalha
    \/ GetTtsCarrega
    \/ Preparar
    \/ ExportarSilencio
    \/ ExportarFalha
    \/ CriarTmp
    \/ SintetizarOk
    \/ SintetizarErro
    \/ SintetizarErroSpeaker
    \/ RetryOk
    \/ RetryErro
    \/ Interromper
    \/ LerOk
    \/ LerErro
    \/ TratarErro
    \/ Finally
    \/ MontarAudio
    \/ PosProcessar
    \/ Exportar
    \/ RetornarPausa

Spec == Init /\ [][Next]_vars

-----------------------------------------------------------------------------
(* The life of a narrator: __init__, one sintetizar_por_cenas, __del__      *)

\* Most scenes of one batch.
MaxCenasLote == 2

\* the steps of _preparar_referencia_voz where an exception may arise; only the
\* last two come after the temp file was created
PassosReferencia ==
    {"carga", "silencio", "filtro", "transformada", "escrita", "diagnostico"}

\* the state before __init__: the configuration and the environment; the
\* configured voice_sample is unset, the file "ref.wav" or a path with no file;
\* the batch to come is called with the scenes of plano, by scene number
InitVida ==
    /\ narrador \in Narradores
    /\ n2w = TRUE
    /\ modo_clonagem = FALSE
    /\ voice_sample \in {"None", "ref.wav", "ausente.wav"}
    /\ speaker \in IF narrador = "TTSNarrator" THEN {"None", "Config"} ELSE {"None"}
    /\ modelo_xtts \in IF narrador = "TTSNarrator" THEN BOOLEAN ELSE {FALSE}
    /\ tts = SemMotor
    /\ vida = "novo"
    /\ ref_tmp = "None"
    /\ ref_arquivo = "ausente"
    /\ ref_log = "nenhum"
    /\ torchaudio \in IF narrador = "ChatterboxNarrator" THEN BOOLEAN ELSE {TRUE}
    /\ plano \in SeqsAte(CenasCurtas, MaxCenasLote)
    /\ SemChamada
    /\ chamada = "sintetizar_por_cenas"
    /\ fase = "chamada"
    /\ arg = <<>>
    /\ argMax = 0
    /\ ret = <<>>
    /\ ret2 = <<>>

\* what __init__ and __del__ leave alone
vidaVars == <<narrador, n2w, modelo_xtts, torchaudio, cenaVars, metodoVars>>

\* __init__ without the is_file() test: any configured sample turns cloning on
ConstruirSemIsFile ==
    /\ vida = "novo"
    /\ modo_clonagem' = (voice_sample # "None")
    /\ vida' = IF narrador = "TTSNarrator" /\ voice_sample # "None"
               THEN "condicionando" ELSE "pronto"
    /\ UNCHANGED <<vidaVars, voice_sample, ref_tmp, ref_arquivo, ref_log>>

\* __init__: cloning mode iff the sample is a file; TTSNarrator then conditions
\* the sample
Construir ==
    /\ vida = "novo"
    /\ modo_clonagem' = (voice_sample = "ref.wav")
    /\ vida' = IF narrador = "TTSNarrator" /\ voice_sample = "ref.wav"
               THEN "condicionando" ELSE "pronto"
    /\ UNCHANGED <<vidaVars, voice_sample, ref_tmp, ref_arquivo, ref_log>>

\* _preparar_referencia_voz without its try statement: an exception leaves
\* __init__ and no narrator is constructed
PrepararReferenciaVozSemTry ==
    /\ vida = "condicionando"
    /\ \E falha \in PassosReferencia \cup {"nenhum"} :
           /\ ref_log' = falha
           /\ ref_arquivo' = IF falha \in {"escrita", "diagnostico", "nenhum"}
                             THEN "existe" ELSE "ausente"
           /\ ref_tmp' = IF falha \in {"diagnostico", "nenhum"}
                         THEN "ref_limpa.wav" ELSE "None"
           /\ voice_sample' = IF falha = "nenhum" THEN "ref_limpa.wav" ELSE voice_sample
           /\ vida' = IF falha = "nenhum" THEN "pronto" ELSE "falhou"
    /\ UNCHANGED <<vidaVars, modo_clonagem>>

\* self.voice_sample = self._preparar_referencia_voz(self.voice_sample): the temp
\* file exists from NamedTemporaryFile on, self._voice_sample_tmp is set after
\* sf.write, and except Exception logs and returns wav_path
PrepararReferenciaVoz ==
    /\ vida = "condicionando"
    /\ \E falha \in PassosReferencia \cup {"nenhum"} :
           /\ ref_log' = falha
           /\ ref_arquivo' = IF falha \in {"escrita", "diagnostico", "nenhum"}
                             THEN "existe" ELSE "ausente"
           /\ ref_tmp' = IF falha \in {"diagnostico", "nenhum"}
                         THEN "ref_limpa.wav" ELSE "None"
           /\ voice_sample' = IF falha = "nenhum" THEN "ref_limpa.wav" ELSE voice_sample
    /\ vida' = "pronto"
    /\ UNCHANGED <<vidaVars, modo_clonagem>>

\* __del__ of TTSNarrator, when no call is running: unlink self._voice_sample_tmp
\* if it is set and the file exists; ChatterboxNarrator has no __del__
Del ==
    /\ vida = "pronto"
    /\ pc \in {"idle", "returned", "raised"}
    /\ fase \in {"chamada", "retornou", "levantou"}
    /\ ref_arquivo' = IF narrador = "TTSNarrator" /\ ref_tmp # "None"
                         /\ ref_arquivo = "existe"
                      THEN "removido" ELSE ref_arquivo
    /\ vida' = "destruido"
    /\ UNCHANGED <<vidaVars, modo_clonagem, voice_sample, ref_tmp, ref_log>>

\* sintetizar_por_cenas(cenas, pasta_output): os.makedirs; audios = []
IniciarLote ==
    /\ vida = "pronto"
    /\ EmLote
    /\ fase = "chamada"
    /\ fase' = "cenas"
    /\ ret2' = <<>>
    /\ UNCHANGED <<narradorVars, cenaVars, chamada, arg, argMax, ret>>

\* a loop that puts the newest path first
AnexarCaminhoNaFrente ==
    /\ EmLote
    /\ fase = "cenas"
    /\ pc = "returned"
    /\ Len(ret2) < chamadas
    /\ ret2' = <<output_path>> \o ret2
    /\ UNCHANGED <<narradorVars, cenaVars, chamada, fase, arg, argMax, ret>>

\* audios.append(audio_path), after sintetizar_cena returned
AnexarCaminho ==
    /\ EmLote
    /\ fase = "cenas"
    /\ pc = "returned"
    /\ Len(ret2) < chamadas
    /\ ret2' = Append(ret2, output_path)
    /\ UNCHANGED <<narradorVars, cenaVars, chamada, fase, arg, argMax, ret>>

\* the loop is over: return audios
RetornarLote ==
    /\ EmLote
    /\ fase = "cenas"
    /\ pc \in {"idle", "returned"}
    /\ chamadas = Len(plano)
    /\ Len(ret2) = chamadas
    /\ ret' = [tipo |-> "retorno", valor |-> ret2]
    /\ fase' = "retornou"
    /\ UNCHANGED <<narradorVars, cenaVars, chamada, arg, argMax, ret2>>

\* a loop that catches the exception of a scene and returns the paths so far
PropagarLoteParcial ==
    /\ EmLote
    /\ fase = "cenas"
    /\ pc = "raised"
    /\ ret' = [tipo |-> "retorno", valor |-> ret2]
    /\ fase' = "retornou"
    /\ UNCHANGED <<narradorVars, cenaVars, chamada, arg, argMax, ret2>>

\* sintetizar_cena raised: nothing in sintetizar_por_cenas catches, the same
\* exception leaves it
PropagarLote ==
    /\ EmLote
    /\ fase = "cenas"
    /\ pc = "raised"
    /\ ret' = resultado
    /\ fase' = "levantou"
    /\ UNCHANGED <<narradorVars, cenaVars, chamada, arg, argMax, ret2>>

\* ChatterboxNarrator._sintetizar_sentenca: import torchaudio raises, inside the
\* try statement of the chunk and before any engine call
SintetizarErroImport ==
    /\ pc = "sintetizar"
    /\ ~PodeGerar
    /\ erros' = erros \cup {i_sent}
    /\ pc' = "except"
    /\ UNCHANGED <<loopVars, wav, segmentos, pendente, motor_log>>

NextVida ==
    \/ Construir
    \/ PrepararReferenciaVoz
    \/ IniciarLote
    \/ Chamar
    \/ GetTtsCarregado
    \/ GetTtsFalha
    \/ GetTtsCarrega
    \/ Preparar
    \/ ExportarSilencio
    \/ ExportarFalha
    \/ CriarTmp
    \/ SintetizarOk
    \/ SintetizarErro
    \/ SintetizarErroImport
    \/ SintetizarErroSpeaker
    \/ RetryOk
    \/ RetryErro
    \/ Interromper
    \/ LerOk
    \/ LerErro
    \/ TratarErro
    \/ Finally
    \/ MontarAudio
    \/ PosProcessar
    \/ Exportar
    \/ AnexarCaminho
    \/ RetornarLote
    \/ PropagarLote
    \/ Del

SpecVida == InitVida /\ [][NextVida]_vars

-----------------------------------------------------------------------------
(* _dividir_em_sentencas called in isolation                                *)

\* Longest text and largest max_chars the segmenter is called with.
MaxLenSeg == 6

MaxMaxChars == 4

AlfabetoSeg == {"a", " ", ",", "."}

InitSeg ==
    /\ InitNarradorPadrao
    /\ n2w = TRUE
    /\ plano = <<>>
    /\ SemChamada
    /\ chamada = "_dividir_em_sentencas"
    /\ fase = "chamada"
    /\ arg \in SeqsAte(AlfabetoSeg, MaxLenSeg)
    /\ argMax \in 1..MaxMaxChars
    /\ ret = <<>>
    /\ ret2 = <<>>

\* return _dividir_em_sentencas(arg, argMax)
RetornarSentencas ==
    /\ chamada = "_dividir_em_sentencas"
    /\ fase = "chamada"
    /\ ret' = DividirEmSentencas(arg, argMax)
    /\ fase' = "retornou"
    /\ UNCHANGED <<narradorVars, cenaVars, chamada, arg, argMax, ret2>>

NextSeg == RetornarSentencas

SpecSeg == InitSeg /\ [][NextSeg]_vars

-----------------------------------------------------------------------------
(* _preparar_texto called in isolation, and again on its own result         *)

\* Longest text the normalizer is called with.
MaxLenNorm == 3

AlfabetoNorm == {"a", " ", ".", "-", "1", "_", "*", "[", "]"}

InitNorm ==
    /\ InitNarradorPadrao
    /\ plano = <<>>
    /\ SemChamada
    /\ chamada = "_preparar_texto"
    /\ fase = "chamada"
    /\ arg \in SeqsAte(AlfabetoNorm, MaxLenNorm)
    /\ argMax = 0
    /\ ret = <<>>
    /\ ret2 = <<>>

\* ret = _preparar_texto(arg)
RetornarPreparado ==
    /\ chamada = "_preparar_texto"
    /\ fase = "chamada"
    /\ ret' = PrepararTexto(narrador, n2w, arg)
    /\ fase' = "retornou"
    /\ UNCHANGED <<narradorVars, cenaVars, chamada, arg, argMax, ret2>>

\* ret2 = _preparar_texto(ret)
PrepararDeNovo ==
    /\ chamada = "_preparar_texto"
    /\ fase = "retornou"
    /\ ret2' = PrepararTexto(narrador, n2w, ret)
    /\ fase' = "retornou2"
    /\ UNCHANGED <<narradorVars, cenaVars, chamada, arg, argMax, ret>>

NextNorm == RetornarPreparado \/ PrepararDeNovo

SpecNorm == InitNorm /\ [][NextNorm]_vars

-----------------------------------------------------------------------------
(* Properties of sintetizar_cena                                            *)

\* the assembly loop of the current call has run
FaixaMontada == pc = "pos" \/ pos_log # <<>>

\* the track as the assembly loop left it, before _pos_processar
Faixa == IF pc = "pos" THEN audio_final ELSE pos_log[1]

\* the engine calls made for chunk k as attempt t
Tentativas(k, t) ==
    {j \in 1..Len(motor_log) : motor_log[j].chunk = k /\ motor_log[j].tentativa = t}

\* the pauses of a track
NumPausas(audio) ==
    Cardinality({j \in 1..Len(audio.pecas) : audio.pecas[j].origem = "pausa"})

C2_ChunkFailureIsolation ==
    /\ pc = "raised" => resultado.valor \in {"ImportError", "OSError", "KeyboardInterrupt"}
    /\ erros \subseteq 1..Len(sentencas)
    /\ \A k \in 1..Len(segmentos) :
           /\ segmentos[k].sent = sentencas[k]
           /\ Len(segmentos[k].seg.pecas) = 1
           /\ IF k \in erros
              THEN /\ segmentos[k].seg.pecas[1].tipo = "silencio"
                   /\ Duracao(segmentos[k].seg) = 500
              ELSE /\ segmentos[k].seg.pecas[1].tipo = "voz"
                   /\ segmentos[k].seg.pecas[1].origem = "motor"
                   /\ segmentos[k].seg.pecas[1].chunk = k
    /\ FaixaMontada =>
           /\ Len(segmentos) = Len(sentencas)
           /\ \A k \in 1..Len(sentencas) : Tentativas(k, 1) # {}
    /\ (pc = "returned" /\ texto # <<>>) =>
           /\ output_path \in DOMAIN disco
           /\ pos_log = <<Montar(narrador, segmentos)>>
           /\ \E f \in BOOLEAN :
                  disco[output_path] =
                      PosProcessarAudio(narrador, pos_log[1], f,
                                        LarguraFaixa(pos_log[1], tts))

\* the second of three chunks failed, the third was synthesized after it and
\* the scene was exported
C2_Witness ==
    /\ pc = "returned"
    /\ Len(sentencas) = 3
    /\ erros = {2}
    /\ \E j \in 1..Len(motor_log) : motor_log[j].chunk = 3 /\ motor_log[j].desfecho = "ok"

\* C3: at most one chunk-level temporary file exists at any time, the one of
\* the chunk being synthesized, and none exists between two chunks or once the
\* call has returned or raised.
C3_TemporaryFilesCleaned ==
    /\ temporarios \subseteq {tmp_path}
    /\ pc \notin {"sintetizar", "retry", "ler", "except", "finally"} => temporarios = {}

\* a call that created a second temporary file and was then interrupted has
\* raised
C3_Witness ==
    /\ pc = "raised"
    /\ resultado.valor = "KeyboardInterrupt"
    /\ criados >= 2
    /\ erros # {}

\* C4: a call whose text is empty, or normalizes to the empty text, returns
\* output_path without error (a failure to write the output file aside), with
\* the output file holding one second of silence, after no engine call and no
\* post-processing.
C4_EmptyTextContract ==
    (/\ pc \in {"returned", "raised"}
     /\ PrepararTexto(narrador, n2w, Cenas[cena]) = <<>>
     /\ resultado # Excecao("OSError")) =>
        /\ pc = "returned"
        /\ resultado = [tipo |-> "retorno", valor |-> "output_path"]
        /\ output_path \in DOMAIN disco
        /\ disco[output_path].pecas = <<[tipo |-> "silencio", origem |-> "vazio",
                                         chunk |-> 0, ini |-> 0, fim |-> 1000]>>
        /\ motor_log = <<>>
        /\ pos_log = <<>>

\* the post-processing chain, with or without its filter stage
UmaCadeia == {EtapasPos(narrador, TRUE), EtapasPos(narrador, FALSE)}

\* C5 as stated: every call that returns has applied _pos_processar exactly
\* once.
C5_PostProcessingExactlyOnce == pc = "returned" => Len(pos_log) = 1

\* C5 amended: a call applies _pos_processar at most once; a call that returns
\* has applied it exactly once when its normalized text is not empty and not at
\* all when it is; it is applied to the track assembled from all the chunks and
\* pauses, before the export, and no chunk's segment is post-processed.
C5_PostProcessingOncePerScene ==
    /\ Len(pos_log) <= 1
    /\ \A k \in 1..Len(segmentos) : segmentos[k].seg.etapas = <<>>
    /\ pos_log # <<>> =>
           /\ texto # <<>>
           /\ Len(segmentos) = Len(sentencas)
           /\ Len(pos_log[1].pecas) = 2 * Len(sentencas) - 1
           /\ pos_log[1] = Montar(narrador, segmentos)
           /\ pos_log[1].etapas = <<>>
    /\ pc = "exportar" => (Len(pos_log) = 1 /\ audio_final.etapas \in UmaCadeia)
    /\ pc = "returned" =>
           /\ Len(pos_log) = (IF texto = <<>> THEN 0 ELSE 1)
           /\ output_path \in DOMAIN disco
           /\ IF texto = <<>> THEN disco[output_path].etapas = <<>>
              ELSE disco[output_path].etapas \in UmaCadeia

\* a scene of three chunks has been post-processed and exported
C5_Witness ==
    /\ pc = "returned"
    /\ Len(sentencas) = 3
    /\ Len(pos_log) = 1
    /\ disco[output_path].etapas # <<>>

\* the pieces of a track that are not pauses
SemPausas(audio) == SelectSeq(audio.pecas, LAMBDA x : x.origem # "pausa")

\* C6: the assembled track holds one segment per chunk, in the order of the
\* chunks, a pause between two segments and nowhere else, the 500 ms silence
\* of a failed chunk at that chunk's place; the engine is called for one chunk
\* at a time, in the order of the chunks.
C6_SegmentOrder ==
    /\ \A k \in 1..Len(segmentos) : segmentos[k].sent = sentencas[k]
    /\ \A a, b \in 1..Len(motor_log) : a < b => motor_log[a].chunk <= motor_log[b].chunk
    /\ pc = "sintetizar" => \A j \in 1..Len(motor_log) : motor_log[j].chunk < i_sent
    /\ FaixaMontada =>
           LET ps == SemPausas(Faixa)
           IN  /\ Len(ps) = Len(sentencas)
               /\ Len(Faixa.pecas) = 2 * Len(sentencas) - 1
               /\ \A j \in 1..Len(Faixa.pecas) :
                      (Faixa.pecas[j].origem = "pausa") <=> (j % 2 = 0)
               /\ \A k \in 1..Len(sentencas) :
                      IF k \in erros
                      THEN ps[k].origem = "fallback" /\ ps[k].fim - ps[k].ini = 500
                      ELSE ps[k].origem = "motor" /\ ps[k].chunk = k

\* a scene of three chunks, the first of which failed, has been exported
C6_Witness ==
    /\ pc = "returned"
    /\ Len(sentencas) = 3
    /\ erros = {1}
    /\ SemPausas(pos_log[1])[1].origem = "fallback"
    /\ SemPausas(pos_log[1])[3].chunk = 3

\* the last character of s that is not whitespace, "" when there is none
UltimoVisivel(s) ==
    LET ks == {k \in 1..Len(s) : s[k] \notin Espacos}
    IN  IF ks = {} THEN "" ELSE s[CHOOSE k \in ks : \A m \in ks : m <= k]

\* the pause the table gives after a chunk
MsEsperado(nar, s) ==
    IF UltimoVisivel(s) \in {".", "!", "?", ";", ":", ","}
    THEN PausasMs(nar)[UltimoVisivel(s)]
    ELSE PausaDefaultMs(nar)

\* C7: _pausa_por_pontuacao gives a silence of the table's duration for the
\* last non-whitespace character of its argument when that is one of
\* . ! ? ; : , and of the default duration for any other; in the assembled
\* track the pause after chunk i < N has that duration for chunk i, and the
\* track ends with the last chunk's segment, not with a pause.
C7_PauseDurationMapping ==
    /\ (chamada = "_pausa_por_pontuacao" /\ fase = "retornou" /\ UltimoVisivel(arg) # "") =>
           /\ Len(ret.pecas) = 1
           /\ ret.pecas[1].tipo = "silencio"
           /\ Duracao(ret) = MsEsperado(narrador, arg)
    /\ (FaixaMontada /\ Len(sentencas) >= 1) =>
           /\ \A k \in 1..(Len(sentencas) - 1) :
                  /\ Faixa.pecas[2 * k].origem = "pausa"
                  /\ Faixa.pecas[2 * k].tipo = "silencio"
                  /\ Faixa.pecas[2 * k].fim - Faixa.pecas[2 * k].ini
                         = MsEsperado(narrador, sentencas[k])
           /\ Faixa.pecas[Len(Faixa.pecas)].origem # "pausa"

\* an exported scene of three chunks whose first chunk ends in a comma: the
\* pause after it lasts the comma's 90 ms and no pause follows the third chunk
C7_Witness ==
    /\ pc = "returned"
    /\ narrador = "TTSNarrator"
    /\ Len(sentencas) = 3
    /\ UltimoVisivel(sentencas[1]) = ","
    /\ pos_log[1].pecas[2].fim = 90
    /\ pos_log[1].pecas[5].origem # "pausa"

-----------------------------------------------------------------------------
(* Properties of _dividir_em_sentencas                                      *)

Retornou(metodo) == chamada = metodo /\ fase = "retornou"

\* C8 as stated: every chunk is at most max_chars long or holds no comma.
C8_BoundOrCommaFree ==
    Retornou("_dividir_em_sentencas") =>
        \A k \in 1..Len(ret) :
            Len(ret[k]) <= argMax \/ \A j \in 1..Len(ret[k]) : ret[k][j] # ","

\* C8 amended: every chunk is at most max_chars long or is a single clause
\* that the split at commas cannot divide, that is, it holds no comma followed
\* by whitespace (it may hold other commas, a trailing one included).
C8_BoundOrIndivisible ==
    Retornou("_dividir_em_sentencas") =>
        \A k \in 1..Len(ret) :
            \/ Len(ret[k]) <= argMax
            \/ \A j \in 2..Len(ret[k]) : ~(ret[k][j - 1] = "," /\ ret[k][j] \in Espacos)

\* an oversized sentence was split at its comma and its first clause, longer
\* than max_chars and ending in the comma, was emitted whole
C8_Witness ==
    /\ Retornou("_dividir_em_sentencas")
    /\ arg = <<"a", "a", ",", " ", "a", ".">>
    /\ argMax = 2
    /\ ret = << <<"a", "a", ",">>, <<"a", ".">> >>

\* " ".join(chunks)
RECURSIVE JuntarComEspacos(_)
JuntarComEspacos(chunks) ==
    IF chunks = <<>> THEN <<>>
    ELSE IF Len(chunks) = 1 THEN chunks[1]
    ELSE chunks[1] \o <<" ">> \o JuntarComEspacos(Tail(chunks))

\* s without its whitespace: the characters of s in their order
SemEspacos(s) == SelectSeq(s, LAMBDA c : c \notin Espacos)

\* the positions of s where a word starts
InicioDePalavra(s, k) == s[k] \notin Espacos /\ (k = 1 \/ s[k - 1] \in Espacos)

\* s and t are equal up to whitespace normalization: the same characters in
\* the same order, broken into words at the same places
MesmoTexto(s, t) ==
    /\ SemEspacos(s) = SemEspacos(t)
    /\ Cardinality({k \in 1..Len(s) : InicioDePalavra(s, k)})
           = Cardinality({k \in 1..Len(t) : InicioDePalavra(t, k)})
    /\ \A k \in 1..Len(s) :
           InicioDePalavra(s, k) =>
               \E m \in 1..Len(t) :
                   /\ InicioDePalavra(t, m)
                   /\ Len(SemEspacos(SubSeq(s, 1, k))) = Len(SemEspacos(SubSeq(t, 1, m)))

\* s is normalized: no whitespace but single spaces between words
Normalizado(s) ==
    /\ \A k \in 1..Len(s) : s[k] \in Espacos => s[k] = " "
    /\ s = <<>> \/ (s[1] # " " /\ s[Len(s)] # " ")
    /\ \A k \in 2..Len(s) : ~(s[k - 1] = " " /\ s[k] = " ")

\* C9: the chunks joined with single spaces are the text up to whitespace
\* normalization, and the text itself when it is normalized; every chunk is
\* non-empty after trimming.
C9_SegmentationCoverage ==
    Retornou("_dividir_em_sentencas") =>
        /\ MesmoTexto(JuntarComEspacos(ret), arg)
        /\ Normalizado(arg) => JuntarComEspacos(ret) = arg
        /\ \A k \in 1..Len(ret) : Strip(ret[k]) # <<>>

\* a normalized text of two sentences was split into its two sentences
C9_Witness ==
    /\ Retornou("_dividir_em_sentencas")
    /\ arg = <<"a", ".", " ", "a", "a", ".">>
    /\ argMax = 3
    /\ Len(ret) = 2
    /\ Normalizado(arg)

-----------------------------------------------------------------------------
(* Properties of _preparar_texto                                            *)

\* C10: normalizing a normalized text changes nothing.
C10_Idempotence == (chamada = "_preparar_texto" /\ fase = "retornou2") => ret2 = ret

\* _preparar_texto has returned ret for arg
Preparado == chamada = "_preparar_texto" /\ fase \in {"retornou", "retornou2"}

\* s holds a markdown decoration token
TemMarkdown(s) ==
    \E k \in 1..Len(s) :
        \/ s[k] \in {"*", "#", "&grave;"}
        \/ s[k] = "_" /\ At(s, k + 1) = "_"

\* s holds an opening bracket with a closing bracket after it
TemColchetes(s) == \E a, b \in 1..Len(s) : a < b /\ s[a] = "[" /\ s[b] = "]"

\* the positions of the brackets of s
Colchetes(s) == {k \in 1..Len(s) : s[k] \in {"[", "]"}}

\* C11: the result of _preparar_texto holds no markdown decoration token and
\* no bracketed text; for a text with one bracketed stage direction the result
\* is that of the text without the direction and its brackets.
C11_NormalizedTextInvariant ==
    Preparado =>
        /\ ~TemMarkdown(ret)
        /\ ~TemColchetes(ret)
        /\ \A a, b \in 1..Len(arg) :
               (a < b /\ arg[a] = "[" /\ arg[b] = "]" /\ Colchetes(arg) = {a, b}) =>
                   ret = PrepararTexto(narrador, n2w,
                             SubSeq(arg, 1, a - 1) \o SubSeq(arg, b + 1, Len(arg)))

-----------------------------------------------------------------------------
(* _numeros_por_extenso called in isolation                                 *)

\* Longest text _numeros_por_extenso is called with.
MaxLenNum == 4

AlfabetoNum == {"1", "0", "a", " ", ".", ","}

InitNum ==
    /\ InitNarradorPadrao
    /\ plano = <<>>
    /\ SemChamada
    /\ chamada = "_numeros_por_extenso"
    /\ fase = "chamada"
    /\ arg \in SeqsAte(AlfabetoNum, MaxLenNum)
    /\ argMax = 0
    /\ ret = <<>>
    /\ ret2 = <<>>

\* return _numeros_por_extenso(arg)
RetornarExtenso ==
    /\ chamada = "_numeros_por_extenso"
    /\ fase = "chamada"
    /\ ret' = NumerosPorExtenso(n2w, arg)
    /\ fase' = "retornou"
    /\ UNCHANGED <<narradorVars, cenaVars, chamada, arg, argMax, ret2>>

NextNum == RetornarExtenso

SpecNum == InitNum /\ [][NextNum]_vars

\* the integer written at a..b of s is in [1, 999] and touches no '.' and no ','
IsoladoDeSeparador(s, a, b) ==
    /\ ParseInt(SubSeq(s, a, b)) \in 1..999
    /\ At(s, a - 1) \notin {".", ","}
    /\ At(s, b + 1) \notin {".", ","}

\* the same, written without leading zero and touching no letter and no '_'
Isolado(s, a, b) ==
    /\ IsoladoDeSeparador(s, a, b)
    /\ s[a] # "0"
    /\ b - a + 1 <= 3
    /\ ~IsWord(At(s, a - 1))
    /\ ~IsWord(At(s, b + 1))

\* s from position i on, with every integer (maximal run of digits) that is
\* isolated, in the strict sense or only from separators, spelled out
RECURSIVE PorExtenso(_, _, _)
PorExtenso(s, i, estrito) ==
    IF i > Len(s) THEN <<>>
    ELSE LET n == IF s[i] \in Digitos THEN RunLen(s, i, Digitos) ELSE 1
             converte ==
                 /\ s[i] \in Digitos
                 /\ IF estrito THEN Isolado(s, i, i + n - 1)
                    ELSE IsoladoDeSeparador(s, i, i + n - 1)
         IN  (IF converte THEN Num2Words(ParseInt(SubSeq(s, i, i + n - 1)))
              ELSE SubSeq(s, i, i + n - 1))
                 \o PorExtenso(s, i + n, estrito)

\* C12 as stated: with the library at hand every integer in [1, 999] that
\* touches no '.', no ',' and no other digit is spelled out and the rest of the
\* text is unchanged; without the library the text is returned unchanged.
C12_EveryBareIntegerExpanded ==
    Retornou("_numeros_por_extenso") =>
        ret = (IF n2w THEN PorExtenso(arg, 1, FALSE) ELSE arg)

\* C12 amended: with the library at hand exactly the integers of one to three
\* digits without leading zero that touch no '.', no ',', no digit, no letter
\* and no '_' are spelled out, and the rest of the text, with every integer
\* >= 1000 and every number touching a separator, is unchanged; without the
\* library the text is returned unchanged.
C12_IsolatedIntegerExpanded ==
    Retornou("_numeros_por_extenso") =>
        ret = (IF n2w THEN PorExtenso(arg, 1, TRUE) ELSE arg)

\* of two integers the isolated one was spelled out and the one before a full
\* stop was not
C12_Witness ==
    /\ Retornou("_numeros_por_extenso")
    /\ n2w
    /\ arg = <<"1", " ", "1", ".">>
    /\ ret = <<"u", "m", " ", "1", ".">>

-----------------------------------------------------------------------------
(* Reference conditioning and its temp file                                 *)

\* C13: once a step of _preparar_referencia_voz has failed, whichever step it
\* was, no exception left __init__ (the narrator is constructed), cloning mode
\* is on, self.voice_sample is the original path, and every engine call made
\* afterwards clones from the original, uncleaned reference.
C13_ReferenceConditioningNeverFatal ==
    ref_log \in PassosReferencia =>
        /\ vida \in {"pronto", "destruido"}
        /\ modo_clonagem
        /\ voice_sample = "ref.wav"
        /\ \A k \in 1..Len(motor_log) : motor_log[k].kwargs.speaker_wav = "ref.wav"

\* the write of the cleaned reference failed and a scene was still synthesized
\* from the original reference
C13_Witness ==
    /\ ref_log = "escrita"
    /\ pc = "returned"
    /\ Len(motor_log) > 0
    /\ motor_log[1].desfecho = "ok"
    /\ motor_log[1].kwargs.speaker_wav = "ref.wav"

\* C14: the temp file of the conditioned reference exists until teardown and
\* does not exist after it, whichever way _preparar_referencia_voz ended.
C14_ConditionedReferenceCleanup ==
    /\ vida = "destruido" => ref_arquivo # "existe"
    /\ vida # "destruido" => ref_arquivo # "removido"

-----------------------------------------------------------------------------
(* The batch of scenes                                                      *)

\* C15: sintetizar_por_cenas makes its k-th call of sintetizar_cena for the k-th
\* scene, with that scene's path and after the paths of the k-1 scenes before
\* were appended, and it returns the list of the scenes' paths in scene order,
\* one per scene, after one call per scene.
C15_SceneBatchOrder ==
    /\ []((EmLote /\ fase = "retornou") =>
              /\ ret.tipo = "retorno"
              /\ ret.valor = plano
              /\ chamadas = Len(plano))
    /\ [][(EmLote /\ chamadas' # chamadas) =>
              /\ chamadas' = chamadas + 1
              /\ cena' = plano[chamadas']
              /\ output_path' = plano[chamadas']
              /\ Len(ret2) = chamadas]_vars

\* a batch of two different scenes returned their two paths
C15_Witness ==
    /\ EmLote
    /\ fase = "retornou"
    /\ plano = <<3, 1>>
    /\ ret.valor = <<3, 1>>
    /\ DOMAIN disco = {1, 3}

C17_EngineUnavailableFatal ==
    /\ (pc = "returned" /\ sentencas # <<>>) => PodeGerar
    /\ (pc = "raised" /\ resultado = Excecao("ImportError")) =>
           /\ segmentos = <<>>
           /\ motor_log = <<>>
           /\ output_path \in DOMAIN disco =>
                  \E k \in 1..Len(ret2) : ret2[k] = output_path

\* C18: an engine-unavailable or output I/O failure that left
\* sintetizar_por_cenas names the number of the scene it arose in.
C18_FatalErrorsCarrySceneIdentity ==
    (EmLote /\ fase = "levantou" /\ ret.valor \in {"ImportError", "OSError"}) =>
        /\ "cena" \in DOMAIN ret
        /\ ret.cena = cena

-----------------------------------------------------------------------------
(* Scene independence                                                       *)

\* C19 as stated: no step of any sequence of sintetizar_cena calls changes the
\* cloning mode, the reference path or the speaker of the narrator.
C19_SettingsNeverChange ==
    [][/\ modo_clonagem' = modo_clonagem
       /\ voice_sample' = voice_sample
       /\ speaker' = speaker]_vars

\* C19 amended: no step changes the cloning mode or the reference path; the
\* speaker changes only in the step that loads the engine, from unset, outside
\* cloning mode and before any engine call of that scene; and every first
\* attempt of every call, first, later or retry, passes the arguments that the
\* narrator's settings give.
C19_SettingsFixedAfterLoad ==
    /\ [][/\ modo_clonagem' = modo_clonagem
          /\ voice_sample' = voice_sample
          /\ (speaker' # speaker) =>
                 /\ ~tts.carregado
                 /\ tts'.carregado
                 /\ speaker = "None"
                 /\ ~modo_clonagem
                 /\ motor_log = <<>>]_vars
    /\ [](\A k \in 1..Len(motor_log) :
              motor_log[k].tentativa = 1 =>
                  motor_log[k].kwargs =
                      Kwargs(narrador, modo_clonagem, voice_sample, speaker,
                             modelo_xtts, tts))

\* the second call of a narrator used the speaker that the load of the first
\* call selected
C19_Witness ==
    /\ chamadas = 2
    /\ pc = "returned"
    /\ narrador = "TTSNarrator"
    /\ ~modo_clonagem
    /\ speaker \notin {"None", "Config"}
    /\ Len(motor_log) > 0
    /\ motor_log[1].kwargs.speaker = speaker

-----------------------------------------------------------------------------
(* Duration accounting                                                      *)

RECURSIVE SomaSegmentos(_)
SomaSegmentos(segs) ==
    IF segs = <<>> THEN 0 ELSE Duracao(segs[1].seg) + SomaSegmentos(Tail(segs))

\* the pauses after every segment but the last
RECURSIVE SomaPausas(_, _)
SomaPausas(nar, segs) ==
    IF Len(segs) <= 1 THEN 0
    ELSE Duracao(PausaPorPontuacao(nar, segs[1].sent)) + SomaPausas(nar, Tail(segs))

\* C20: the assembled track lasts as long as its segments, genuine or 500 ms
\* fallback, and the pauses between them together, and the track that
\* _pos_processar returns lasts as long as the assembled one.
C20_DurationAccounting ==
    /\ FaixaMontada =>
           Duracao(Faixa) = SomaSegmentos(segmentos) + SomaPausas(narrador, segmentos)
    /\ (pc \in {"exportar", "returned"} /\ pos_log # <<>>) =>
           Duracao(audio_final) = Duracao(pos_log[1])

-----------------------------------------------------------------------------
(* _preparar_referencia_voz: the noise estimate and the levels              *)

\* Samples are in thousandths of full scale, times in milliseconds.

\* Most samples of a reference signal.
MaxLenSinal == 2

\* 10 ** (-14.0 / 20.0), in thousandths
TargetPeakMil == 200

\* 0.15 * mag, the floor of the spectral subtraction, in percent
PisoPct == 15

\* min_silence_len of the detection on the original recording
MinSilencioOrig == 300

Abs(x) == IF x >= 0 THEN x ELSE 0 - x

\* detect_nonsilent(original, min_silence_len, ...)[0][0]: where the first
\* speech starts, -1 for an empty list; a leading silence is found only when it
\* is at least min_silence_len long
InicioFala(lead, tem_fala, min_len) ==
    IF ~tem_fala THEN 0 - 1 ELSE IF lead >= min_len THEN lead ELSE 0

\* where noise_ref is taken from: if silencio_orig and silencio_orig[0][0] > 300,
\* else the first pause detect_silence finds in trecho, else samples[:n_fb]
FonteRuido(inicio, tem_pausa) ==
    IF inicio > 300 THEN "pre_fala"
    ELSE IF tem_pausa THEN "pausa_interna"
    ELSE "primeiros_200ms"

\* mag_clean = np.maximum(mag - noise_profile, 0.15 * mag) on a stationary
\* signal: every sample keeps pct percent of its value, PisoPct <= pct <= 100
SubtracaoEspectral(amostras, pct) ==
    [k \in 1..Len(amostras) |->
        IF amostras[k] >= 0 THEN (amostras[k] * pct) \div 100
        ELSE 0 - ((Abs(amostras[k]) * pct) \div 100)]

\* np.max(np.abs(samples_clean))
RECURSIVE Pico(_)
Pico(amostras) ==
    IF amostras = <<>> THEN 0 ELSE Max(Abs(amostras[1]), Pico(Tail(amostras)))

\* if peak > 0: samples_clean = samples_clean * (target_peak / peak)
NormalizarPico(amostras) ==
    IF Pico(amostras) > 0
    THEN [k \in 1..Len(amostras) |->
             IF amostras[k] >= 0 THEN (amostras[k] * TargetPeakMil) \div Pico(amostras)
             ELSE 0 - ((Abs(amostras[k]) * TargetPeakMil) \div Pico(amostras))]
    ELSE amostras

\* np.mean(amostras[:n] ** 2) * n: the RMS over the window, squared and scaled
RECURSIVE EnergiaJanela(_, _)
EnergiaJanela(amostras, n) ==
    IF n = 0 THEN 0 ELSE amostras[n] * amostras[n] + EnergiaJanela(amostras, n - 1)

\* Sample values of the reference signals.
Niveis == {0 - 600, 0 - 50, 50, 600}

\* Lengths of the silence before the first speech of the original recording.
Leads == {0, 299, 300, 301}

\* a reference: samples after the high-pass, the window the noise level is
\* measured on, what the silence detections find, how much the subtraction keeps
InitRef ==
    /\ InitNarradorPadrao
    /\ narrador = "TTSNarrator"
    /\ n2w = TRUE
    /\ plano = <<>>
    /\ SemChamada
    /\ chamada = "_preparar_referencia_voz"
    /\ fase = "chamada"
    /\ arg \in [amostras : SeqsAte(Niveis, MaxLenSinal) \ {<<>>}, n_noise : 1..MaxLenSinal,
                lead : Leads, tem_fala : BOOLEAN, tem_pausa : BOOLEAN,
                pct : {PisoPct, 100}]
    /\ arg.n_noise <= Len(arg.amostras)
    /\ argMax = 0
    /\ ret = <<>>
    /\ ret2 = <<>>

\* _preparar_referencia_voz up to the normalization: the source of the noise
\* estimate and samples_clean
RetornarReferencia ==
    /\ chamada = "_preparar_referencia_voz"
    /\ fase = "chamada"
    /\ ret' = [fonte |-> FonteRuido(InicioFala(arg.lead, arg.tem_fala, MinSilencioOrig),
                                    arg.tem_pausa),
               limpo |-> NormalizarPico(SubtracaoEspectral(arg.amostras, arg.pct))]
    /\ fase' = "retornou"
    /\ UNCHANGED <<narradorVars, cenaVars, chamada, arg, argMax, ret2>>

NextRef == RetornarReferencia

SpecRef == InitRef /\ [][NextRef]_vars

\* C21: over the noise window the output of _preparar_referencia_voz has no
\* more energy (mean square, so no larger RMS) than its input, whatever the
\* level of the noise.
C21_NoiseReductionMonotone ==
    Retornou("_preparar_referencia_voz") =>
        EnergiaJanela(ret.limpo, arg.n_noise) <= EnergiaJanela(arg.amostras, arg.n_noise)

\* C22: the noise estimate comes from the silence before the first speech of
\* the original whenever the detection finds one, else from the first internal
\* pause whenever there is one, and from the first 200 ms of the extracted
\* speech only when there is neither.
C22_NoiseEstimatePriority ==
    Retornou("_preparar_referencia_voz") =>
        ret.fonte =
            (IF InicioFala(arg.lead, arg.tem_fala, MinSilencioOrig) > 0 THEN "pre_fala"
             ELSE IF arg.tem_pausa THEN "pausa_interna"
             ELSE "primeiros_200ms")

-----------------------------------------------------------------------------
(* _get_tts: the speaker selected when the engine is loaded                 *)

\* What the engine may offer as its speakers, directly or through its manager.
OfertasVoz ==
    {<<>>, <<"Outra Voz">>, <<"Outra Voz", "Ana Florence">>,
     <<"Claribel Dervla", "Gilberto Mathias">>}

\* a TTSNarrator of any configuration calls _get_tts for the first time; arg is
\* what the engine will offer: tts.speakers, the names of the speaker manager,
\* and whether the manager can be read
InitVoz ==
    /\ InitNarrador
    /\ narrador = "TTSNarrator"
    /\ n2w = TRUE
    /\ plano = <<>>
    /\ SemChamada
    /\ chamada = "_get_tts"
    /\ fase = "chamada"
    /\ arg \in [direto : OfertasVoz, nomes : OfertasVoz, ok : BOOLEAN]
    /\ argMax = 0
    /\ ret = <<>>
    /\ ret2 = <<>>

\* _get_tts loads the engine and selects the speaker; ret keeps the speaker the
\* narrator had before
RetornarMotor ==
    /\ chamada = "_get_tts"
    /\ fase = "chamada"
    /\ ~tts.carregado
    /\ \E m \in IF modelo_xtts THEN {TRUE} ELSE BOOLEAN :
           tts' = [carregado |-> TRUE, multilingue |-> m, largura |-> 2]
    /\ speaker' = AutoSpeaker(modo_clonagem, speaker, modelo_xtts, arg.direto,
                              [ok |-> arg.ok, nomes |-> arg.nomes])
    /\ ret' = <<speaker>>
    /\ fase' = "retornou"
    /\ UNCHANGED <<narradorVars, plano, chamadas, pc, cena, output_path, texto, sentencas,
                   i_sent, tmp_path, wav, segmentos, pendente, audio_final, resultado,
                   disco, temporarios, criados, motor_log, erros, pos_log, chamada, arg,
                   argMax, ret2>>

NextVoz == RetornarMotor

SpecVoz == InitVoz /\ [][NextVoz]_vars

\* the identities the engine offers: its own list, else the manager's when it
\* can be read
Oferecidos ==
    IF arg.direto # <<>> THEN arg.direto ELSE IF arg.ok THEN arg.nomes ELSE <<>>

\* p is the preferred identity of highest priority among the offered ones
MelhorPreferido(p) ==
    \E k \in 1..Len(Preferidos) :
        /\ Preferidos[k] = p
        /\ p \in Elementos(Oferecidos)
        /\ \A m \in 1..(k - 1) : Preferidos[m] \notin Elementos(Oferecidos)

\* the speaker selection is required: no cloning, no configured speaker
SelecaoNecessaria == ~modo_clonagem /\ ret[1] = "None"

\* the first preferred identity offered, else the first identity offered
SelecaoDaOferta ==
    /\ (\E p \in Elementos(Preferidos) : MelhorPreferido(p)) => MelhorPreferido(speaker)
    /\ (~\E p \in Elementos(Preferidos) : MelhorPreferido(p)) => speaker = Oferecidos[1]

\* C23 (as stated): without cloning and without a configured speaker, loading
\* the engine sets the speaker to the first preferred identity offered, else to
\* the first identity offered, else, with no list at all, to the hardcoded
\* default; a configured speaker or cloning mode is never overridden.
C23_VoiceIdentitySelection ==
    Retornou("_get_tts") =>
        /\ SelecaoNecessaria /\ Oferecidos # <<>> => SelecaoDaOferta
        /\ SelecaoNecessaria /\ Oferecidos = <<>> => speaker = "Daisy Studious"
        /\ ~SelecaoNecessaria => speaker = ret[1]

\* C23 (amended): as stated, but with no list at all the hardcoded default is
\* set only for an XTTS model; for any other model the speaker stays unset.
C23_VoiceIdentitySelectionXtts ==
    Retornou("_get_tts") =>
        /\ SelecaoNecessaria /\ Oferecidos # <<>> => SelecaoDaOferta
        /\ SelecaoNecessaria /\ Oferecidos = <<>> =>
               speaker = (IF modelo_xtts THEN "Daisy Studious" ELSE "None")
        /\ ~SelecaoNecessaria => speaker = ret[1]

\* two preferred identities are offered out of priority order, through the
\* manager, and the one of higher priority is selected
C23_Witness ==
    /\ Retornou("_get_tts")
    /\ SelecaoNecessaria
    /\ arg.direto = <<>>
    /\ Oferecidos = <<"Claribel Dervla", "Gilberto Mathias">>
    /\ speaker = "Gilberto Mathias"

-----------------------------------------------------------------------------
(* Cloning mode                                                             *)

\* the reference path a narrator in cloning mode holds after __init__: the
\* conditioned file when TTSNarrator conditioned the sample, else the original
ReferenciaEsperada ==
    IF narrador = "TTSNarrator" /\ ref_log = "nenhum" THEN "ref_limpa.wav" ELSE "ref.wav"

-----------------------------------------------------------------------------
(* Failure of the filter stage                                              *)

\* the stages after the filter stage
EtapasSeguintes == <<"normalize", "compress_dynamic_range", "apply_gain", "fade_in", "fade_out">>

\* the filter stage of the last _pos_processar was applied
FiltrosAplicados ==
    /\ audio_final.etapas # <<>>
    /\ audio_final.etapas[1] \in {"passa_altas_80", "passa_altas_60"}

\* C25: when the filter stage fails, _pos_processar goes on with the track it
\* was given, unchanged, applies every later stage to it, and the call does not
\* raise: the step after the assembly always reaches the export.
C25_GracefulFilterFailure ==
    /\ [](pc = "exportar" /\ ~FiltrosAplicados =>
              /\ Len(pos_log) = 1
              /\ audio_final.pecas = pos_log[1].pecas
              /\ audio_final.etapas = pos_log[1].etapas \o EtapasSeguintes)
    /\ [][pc = "pos" => pc' = "exportar" /\ resultado' = resultado]_vars

\* the filter stage failed on a track that holds a chunk's audio, and the
\* later stages ran on it
C25_Witness ==
    /\ pc = "exportar"
    /\ ~FiltrosAplicados
    /\ audio_final.etapas = EtapasSeguintes
    /\ \E j \in 1..Len(audio_final.pecas) : audio_final.pecas[j].tipo = "voz"

-----------------------------------------------------------------------------
(* Normal form of punctuation and whitespace                                *)

\* s holds c twice in a row
TemDuplo(s, c) == \E k \in 1..(Len(s) - 1) : s[k] = c /\ s[k + 1] = c

\* s holds two whitespace characters in a row
TemEspacosSeguidos(s) ==
    \E k \in 1..(Len(s) - 1) : s[k] \in Espacos /\ s[k + 1] \in Espacos

\* C26: the result of _preparar_texto holds no two periods in a row, no double
\* hyphen, no two whitespace characters in a row, and neither begins nor ends
\* with whitespace.
C26_PunctuationWhitespaceNormalForm ==
    Preparado =>
        /\ ~TemDuplo(ret, ".")
        /\ ~TemDuplo(ret, "-")
        /\ ~TemEspacosSeguidos(ret)
        /\ ret # <<>> => (ret[1] \notin Espacos /\ ret[Len(ret)] \notin Espacos)

\* a text ending in a double hyphen became a text ending in a comma
C26_Witness ==
    /\ Preparado
    /\ arg = <<"a", "-", "-">>
    /\ ret = <<"a", ",">>

-----------------------------------------------------------------------------
(* The retry with the fallback speaker                                      *)

\* engine call j is a second call for its chunk
SegundaChamada(j) == motor_log[j].tentativa = 2

\* C27: a chunk gets at most two engine calls; a second call directly follows
\* a first call of the same chunk that passed no speaker and raised the
\* ValueError about the speaker, is made outside cloning mode and passes
\* "Daisy Studious"; after any other exception no further call is made for the
\* chunk and the exception reaches sintetizar_cena; in cloning mode no chunk
\* gets a second call.
C27_SpeakerFallbackRetry ==
    /\ \A j \in 1..Len(motor_log) :
           /\ Cardinality(Tentativas(motor_log[j].chunk, 1)) = 1
           /\ Cardinality(Tentativas(motor_log[j].chunk, 2)) <= 1
           /\ SegundaChamada(j) =>
                  /\ narrador = "TTSNarrator"
                  /\ ~modo_clonagem
                  /\ j > 1
                  /\ motor_log[j - 1].chunk = motor_log[j].chunk
                  /\ motor_log[j - 1].tentativa = 1
                  /\ motor_log[j - 1].desfecho = "ValueError_speaker"
                  /\ motor_log[j - 1].kwargs.speaker = "None"
                  /\ motor_log[j].kwargs =
                         [motor_log[j - 1].kwargs EXCEPT !.speaker = "Daisy Studious"]
           /\ motor_log[j].desfecho = "Exception" => motor_log[j].chunk \in erros
           /\ (j < Len(motor_log) /\ motor_log[j].desfecho # "ValueError_speaker") =>
                  motor_log[j + 1].chunk # motor_log[j].chunk
    /\ modo_clonagem => \A j \in 1..Len(motor_log) : ~SegundaChamada(j)

\* one chunk's call raised and was not retried, and a later chunk's call
\* without a speaker was retried with the fallback speaker
C27_Witness ==
    /\ ~modo_clonagem
    /\ Len(motor_log) = 3
    /\ motor_log[1].desfecho = "Exception"
    /\ motor_log[2].desfecho = "ValueError_speaker"
    /\ SegundaChamada(3)
    /\ motor_log[3].desfecho = "ok"

-----------------------------------------------------------------------------
(* The engine handle                                                        *)

\* C28: the handle is set only by a load that succeeds, at the start of a call
\* that finds it unset, and is never set again or changed afterwards; a call
\* that finds it set goes on with it; a load that fails leaves it unset, so that
\* a call that finds it unset always attempts the load; and every engine call
\* is made on a loaded handle.
C28_EngineLoadedOnce ==
    /\ [][/\ tts.carregado => tts' = tts
          /\ tts' # tts => (pc = "get_tts" /\ tts'.carregado /\ pc' = "preparar")
          /\ (pc = "get_tts" /\ tts.carregado) => pc' = "preparar"
          /\ (pc = "get_tts" /\ ~tts.carregado) =>
                 \/ tts'.carregado /\ pc' = "preparar"
                 \/ tts' = tts /\ pc' = "raised"]_vars
    /\ [](motor_log # <<>> => tts.carregado)

\* the first call loaded the engine and exported its scene, and the second
\* call is synthesizing with the handle it found
C28_Witness ==
    /\ chamadas = 2
    /\ pc = "ler"
    /\ tts.carregado
    /\ 1 \in DOMAIN disco
    /\ \E j \in 1..Len(disco[1].pecas) : disco[1].pecas[j].tipo = "voz"

-----------------------------------------------------------------------------
(* _strip_silence called in isolation                                       *)

\* Longest chunk _strip_silence is called with, in steps of 10 ms (the step of
\* detect_leading_silence).
MaxTrecho == 15

\* the chunks: a length, and what detect_leading_silence finds on the chunk
\* and on its reverse; the two silences do not overlap unless the whole chunk
\* is silent
Trechos ==
    {w \in [escrito : {TRUE}, ms : {10 * n : n \in 1..MaxTrecho},
            lead : {10 * n : n \in 0..MaxTrecho}, trail : {10 * n : n \in 0..MaxTrecho}] :
        \/ w.lead + w.trail <= w.ms
        \/ w.lead = w.ms /\ w.trail = w.ms}

InitStrip ==
    /\ InitNarradorPadrao
    /\ narrador = "TTSNarrator"
    /\ n2w = TRUE
    /\ plano = <<>>
    /\ SemChamada
    /\ chamada = "_strip_silence"
    /\ fase = "chamada"
    /\ arg \in Trechos
    /\ argMax = 0
    /\ ret = <<>>
    /\ ret2 = <<>>

\* ret = _strip_silence(arg)
RetornarTrecho ==
    /\ chamada = "_strip_silence"
    /\ fase = "chamada"
    /\ ret' = StripSilence(1, arg).pecas
    /\ fase' = "retornou"
    /\ UNCHANGED <<narradorVars, cenaVars, chamada, arg, argMax, ret2>>

NextStrip == RetornarTrecho

SpecStrip == InitStrip /\ [][NextStrip]_vars

\* what is cut from the start and from the end of a chunk: the detected
\* silence less the margin kept
CorteInicio == IF arg.lead > 40 THEN arg.lead - 40 ELSE 0

CorteFim == IF arg.trail > 80 THEN arg.trail - 80 ELSE 0

\* C29: for a chunk of length L with leading silence a and trailing silence b,
\* _strip_silence returns [max(0, a - 40), L - max(0, b - 80)) when that range
\* is not empty and the whole chunk otherwise; the result is one piece of the
\* chunk, never empty, and it holds everything between the two silences.
C29_SilenceTrimmingBounds ==
    Retornou("_strip_silence") =>
        /\ Len(ret) = 1
        /\ ret[1].tipo = "voz"
        /\ IF arg.ms - CorteFim > CorteInicio
           THEN ret[1].ini = CorteInicio /\ ret[1].fim = arg.ms - CorteFim
           ELSE ret[1].ini = 0 /\ ret[1].fim = arg.ms
        /\ ret[1].fim > ret[1].ini
        /\ ret[1].ini >= 0
        /\ ret[1].fim <= arg.ms
        /\ ret[1].ini <= arg.lead
        /\ ret[1].fim >= arg.ms - arg.trail

\* a chunk of 150 ms with 60 ms of silence before and 90 ms after the speech
\* keeps [20, 140)
C29_Witness ==
    /\ Retornou("_strip_silence")
    /\ arg.ms = 150
    /\ arg.lead = 60
    /\ arg.trail = 90
    /\ ret[1].ini = 20
    /\ ret[1].fim = 140

\* a silent chunk of 150 ms, whose range would be empty, is kept whole
C29_WitnessWhole ==
    /\ Retornou("_strip_silence")
    /\ arg.ms = 150
    /\ arg.lead = 150
    /\ arg.trail = 150
    /\ ret[1].ini = 0
    /\ ret[1].fim = 150

-----------------------------------------------------------------------------
(* pipeline_automatico                                                      *)

\* Most trends hunter.buscar_todas() returns.
MaxTrends == 3

\* trend.titulo of the trends found
Titulos == {"tema_a", "tema_b"}

\* pipeline_automatico(config) is called; plano is trends, ret the calls of
\* pipeline_completo with their outcomes, ret2 is resultados, arg the answer to
\* the confirmation
InitAuto ==
    /\ InitNarradorPadrao
    /\ narrador = "TTSNarrator"
    /\ n2w = TRUE
    /\ plano \in SeqsAte(Titulos, MaxTrends)
    /\ SemChamada
    /\ chamada = "pipeline_automatico"
    /\ fase = "chamada"
    /\ arg = "None"
    /\ argMax = 0
    /\ ret = <<>>
    /\ ret2 = <<>>

\* if not trends: return
SemTrends ==
    /\ chamada = "pipeline_automatico"
    /\ fase = "chamada"
    /\ plano = <<>>
    /\ fase' = "retornou"
    /\ UNCHANGED <<narradorVars, cenaVars, chamada, arg, argMax, ret, ret2>>

\* resp = input(...); if resp != "s": return; resultados = []
Confirmar ==
    /\ chamada = "pipeline_automatico"
    /\ fase = "chamada"
    /\ plano # <<>>
    /\ \E resp \in {"s", "n"} :
           /\ arg' = resp
           /\ fase' = IF resp = "s" THEN "laco" ELSE "retornou"
    /\ UNCHANGED <<narradorVars, cenaVars, chamada, argMax, ret, ret2>>

\* for i, trend in enumerate(trends): pipeline_completo(config, trend_objeto=trend, ...)
ChamarPipeline ==
    /\ chamada = "pipeline_automatico"
    /\ fase = "laco"
    /\ Len(ret2) < Len(plano)
    /\ ret' = Append(ret, [trend |-> plano[Len(ret2) + 1], desfecho |-> "em_curso"])
    /\ fase' = "pipeline"
    /\ UNCHANGED <<narradorVars, cenaVars, chamada, arg, argMax, ret2>>

\* pipeline_completo returns: resultados.append({... "status": "OK", "pasta": pasta_trend})
PipelineOk ==
    /\ chamada = "pipeline_automatico"
    /\ fase = "pipeline"
    /\ ret' = [ret EXCEPT ![Len(ret)].desfecho = "ok"]
    /\ ret2' = Append(ret2, [titulo |-> ret[Len(ret)].trend, status |-> "OK",
                             pasta |-> ret[Len(ret)].trend])
    /\ fase' = "laco"
    /\ UNCHANGED <<narradorVars, cenaVars, chamada, arg, argMax>>

\* a loop without the try statement: the exception leaves pipeline_automatico
PipelineErroPropaga ==
    /\ chamada = "pipeline_automatico"
    /\ fase = "pipeline"
    /\ ret' = [ret EXCEPT ![Len(ret)].desfecho = "Exception"]
    /\ fase' = "levantou"
    /\ UNCHANGED <<narradorVars, cenaVars, chamada, arg, argMax, ret2>>

\* except Exception as e: resultados.append({... "status": f"ERRO: {e}", "pasta": None})
PipelineErro ==
    /\ chamada = "pipeline_automatico"
    /\ fase = "pipeline"
    /\ ret' = [ret EXCEPT ![Len(ret)].desfecho = "Exception"]
    /\ ret2' = Append(ret2, [titulo |-> ret[Len(ret)].trend, status |-> "ERRO",
                             pasta |-> "None"])
    /\ fase' = "laco"
    /\ UNCHANGED <<narradorVars, cenaVars, chamada, arg, argMax>>

\* pipeline_completo is left by a KeyboardInterrupt, which except Exception does
\* not catch
PipelineInterrompido ==
    /\ chamada = "pipeline_automatico"
    /\ fase = "pipeline"
    /\ ret' = [ret EXCEPT ![Len(ret)].desfecho = "KeyboardInterrupt"]
    /\ fase' = "levantou"
    /\ UNCHANGED <<narradorVars, cenaVars, chamada, arg, argMax, ret2>>

\* the loop is over: the summary is printed and pipeline_automatico returns
Resumo ==
    /\ chamada = "pipeline_automatico"
    /\ fase = "laco"
    /\ Len(ret2) = Len(plano)
    /\ fase' = "retornou"
    /\ UNCHANGED <<narradorVars, cenaVars, chamada, arg, argMax, ret, ret2>>

NextAuto ==
    \/ SemTrends
    \/ Confirmar
    \/ ChamarPipeline
    \/ PipelineOk
    \/ PipelineErro
    \/ PipelineInterrompido
    \/ Resumo

SpecAuto == InitAuto /\ [][NextAuto]_vars

\* C30: pipeline_completo is called only after the user confirmed, once per
\* trend and in list order; each call that returned or raised an exception has
\* its entry in resultados, in order, OK for a return and an error for an
\* exception; an exception never leaves pipeline_automatico; and when
\* pipeline_automatico returns after the confirmation, every trend was
\* processed and resultados holds exactly one entry per trend.
C30_AutomaticModeIsolation ==
    /\ arg # "s" => ret = <<>> /\ ret2 = <<>>
    /\ Len(ret) <= Len(plano)
    /\ \A k \in 1..Len(ret) : ret[k].trend = plano[k]
    /\ Len(ret2) <= Len(ret)
    /\ \A k \in 1..Len(ret) :
           /\ ret[k].desfecho = "ok" =>
                  k <= Len(ret2) /\ ret2[k].titulo = plano[k] /\ ret2[k].status = "OK"
           /\ ret[k].desfecho = "Exception" =>
                  /\ fase = "levantou" => k < Len(ret)
                  /\ k <= Len(ret2)
                  /\ ret2[k].titulo = plano[k]
                  /\ ret2[k].status = "ERRO"
                  /\ ret2[k].pasta = "None"
           /\ ret[k].desfecho \in {"em_curso", "KeyboardInterrupt"} =>
                  k = Len(ret) /\ Len(ret2) = k - 1
    /\ (fase = "retornou" /\ arg = "s") =>
           Len(ret) = Len(plano) /\ Len(ret2) = Len(plano)

\* the pipeline of the first of three trends raised, the other two were
\* processed, and the results hold the three entries
C30_Witness ==
    /\ fase = "retornou"
    /\ arg = "s"
    /\ Len(plano) = 3
    /\ Len(ret2) = 3
    /\ ret2[1].status = "ERRO"
    /\ ret2[2].status = "OK"
    /\ ret2[3].status = "OK"

=============================================================================
